---------------------------- MODULE Spec2Model ----------------------------
(***************************************************************************)
(* Character-art pipeline of bluebird-tapes: the indexed encoder           *)
(* (convertToAsciiFormat), the batch generator (parseArgs, processImage,   *)
(* kMeansCluster, main), the SSIM matchers (calculateSSIM, the WGSL        *)
(* shader) and the interactive generator (AsciiGenerator).                 *)
(*                                                                         *)
(* Strings that the code builds or parses are sequences of one-character   *)
(* strings, so that formatting and parsing are computed, not assumed.      *)
(***************************************************************************)
EXTENDS Integers, Sequences, FiniteSets, TLC

VARIABLES
  \* ---- indexed encoder, driven alone (SpecEnc)
  encPc,        \* "input" | "encoded" | "decoded" | "idle"
  encGrid,      \* the AsciiChar[][] handed to convertToAsciiFormat
  encOut,       \* the AsciiFormatJson it returned
  encDecoded,   \* what the renderer's decoder reads back from encOut
  \* ---- batch generator (SpecBatch)
  bPc,          \* "start" | "loop" | "done" | "idle"
  bArgs,        \* process.argv as parseArgs reads it
  bConfig,      \* the Config parseArgs returned
  bImages,      \* what findImages returned: the units, sorted by unitId
  bIi,          \* position of main's outer loop in images
  bWi,          \* position of main's loop in config.widths
  bWritten,     \* the files written, in order: [name, unit_id, width, doc]
  bErrors,      \* the iterations that ended in the catch block, in order:
                \* [unit_id, width, err]
  bTotalFiles,  \* main's totalFiles
  bTotalBytes,  \* main's totalBytes
  bQuant,       \* processImage's palettes of the last iteration, with the
                \* generator state when its last kMeansCluster call returned
  bAscii,       \* the AsciiChar[][] processImage returned last
  \* ---- SSIM matchers on one cell (SpecSsim)
  sCell,        \* gray levels of the cell's pixels on the canvas
  sTemplates,   \* gray levels of the glyph rasters, in the order of charTemplates
  sScores,      \* ssim of the CPU loop per template, <<>> before the loop
  sCpu,         \* <<0-based index of the CPU loop's bestChar>>, <<>> before
  sGpuScores,   \* ssim of the shader per template, <<>> before the dispatch
  sGpu,         \* the results array of the shader, <<>> before the dispatch
  sPrior,       \* the CPU loop's result before the templates were swapped
  \* ---- the interactive generator (SpecGen)
  gImage,       \* imageRef.current (w = 0: no image loaded)
  gTextWidth,   \* state textWidth
  gAlgorithm,   \* state algorithm
  gCharTemplates, \* the charTemplates memo
  gMatcherRef,  \* gpuMatcherRef.current: <<>> (null) or <<matcher>>
  gPending,     \* createGpuSsimMatcher promises not settled yet
  gCreated,     \* number of createGpuSsimMatcher calls so far
  gDestroyed,   \* matchers whose destroy() has run
  gGpuStatus,   \* state gpuStatus
  gInitLog,     \* console.warn lines of the matcher's creation
  gTimer,       \* the debounce timeout is pending
  gCall,        \* locals of the processImage call started last
  gGens,        \* processImage calls suspended at await match()
  gAsciiOutput, \* state asciiOutput: <<>> (null) or <<grid>>
  gIsProcessing, \* state isProcessing
  gLast,        \* the processImage call that ended last: <<>> or <<its
                \* textWidth, mode, console lines, whether it rejected>>
  \* ---- checkWebGpuSupport (SpecProbe)
  pPc,          \* where the call is: "idle", "start", "adapter", "device",
                \* "resolved" or "rejected"
  pEnv,         \* what the browser answers: isSecureContext, navigator.gpu,
                \* the outcomes of requestAdapter and requestDevice
  pDiag,        \* the diagnostics object
  \* ---- kMeansCluster of the batch generator, step by step (SpecKMeans)
  kPc,          \* "idle", "seeding" (the while loop), "refining" (the for
                \* loop) or "returned"
  kColors,      \* the parameter colors
  kK,           \* the parameter k
  kSeedVal,     \* seedVal of pseudoRandom
  kUsed,        \* the indices added to used, in the order of the draws
  kCentroids,   \* centroids
  kIter,        \* iter of the for loop
  \* ---- the character index of brightness mode (SpecIndex)
  xPc,          \* "idle", "input" or "done"
  xCells,       \* two cells, each the list of its pixels
  xLen,         \* chars.length
  xIdx,         \* charIdx of the two cells, <<>> before it is computed
  \* ---- one GpuSsimMatcher and the calls of match() on it (SpecMatch)
  mPc, \* "idle", "creating", "ready", "lost" (the device was lost) or "destroyed"
  mTemplates, \* the contents of templateBuffer
  mTemplateWrites, \* how many times templateBuffer was written
  mParams, \* the contents of paramsBuffer on the queue timeline
  mQueue, \* the operations submitted to device.queue and not yet executed
  mCalls, \* the calls of match(): where each is, its arguments, its buffers
  \* ---- the debounced auto-update effect on a clock (SpecDebounce)
  dNow, \* the time, in units of 50 ms
  dParams, \* the parameter values of the current render, numbered as they change
  dTimers, \* the timeouts set and neither fired nor cleared: when due, the parameters of the closure
  dChanges, \* the times of the changes so far, the loading of the image first
  dStarted, \* the calls of processImage started by a timeout: when, with which parameters
  \* ---- the faction data hook, its fetches and its renders (SpecFaction)
  fServer, \* what the server does with the file of each faction
  fCache, \* the ids in cache, as of the last render
  fLoading, \* the ids whose loading flag is true, as of the last render
  fErrors, \* the ids in errors, as of the last render
  fQueued, \* the three states after the updaters queued since the last render, and which were touched
  fEffect, \* the preload effect is due, its dependency loadFaction being new
  fFetch  \* for each id, the positions of the calls of loadFaction that have not returned

encVars == <<encPc, encGrid, encOut, encDecoded>>

batchVars == <<bPc, bArgs, bConfig, bImages, bIi, bWi, bWritten, bErrors,
               bTotalFiles, bTotalBytes, bQuant, bAscii>>

ssimVars == <<sCell, sTemplates, sScores, sCpu, sGpuScores, sGpu, sPrior>>

genVars == <<gImage, gTextWidth, gAlgorithm, gCharTemplates, gMatcherRef,
             gPending, gCreated, gDestroyed, gGpuStatus, gInitLog, gTimer,
             gCall, gGens, gAsciiOutput, gIsProcessing, gLast>>

probeVars == <<pPc, pEnv, pDiag>>

kmeansVars == <<kPc, kColors, kK, kSeedVal, kUsed, kCentroids, kIter>>

indexVars == <<xPc, xCells, xLen, xIdx>>

matchVars == <<mPc, mTemplates, mTemplateWrites, mParams, mQueue, mCalls>>

debounceVars == <<dNow, dParams, dTimers, dChanges, dStarted>>

factionVars == <<fServer, fCache, fLoading, fErrors, fQueued, fEffect, fFetch>>

vars == <<encPc, encGrid, encOut, encDecoded,
          bPc, bArgs, bConfig, bImages, bIi, bWi, bWritten, bErrors,
          bTotalFiles, bTotalBytes, bQuant, bAscii,
          sCell, sTemplates, sScores, sCpu, sGpuScores, sGpu, sPrior,
          gImage, gTextWidth, gAlgorithm, gCharTemplates, gMatcherRef,
          gPending, gCreated, gDestroyed, gGpuStatus, gInitLog, gTimer,
          gCall, gGens, gAsciiOutput, gIsProcessing, gLast,
          pPc, pEnv, pDiag,
          kPc, kColors, kK, kSeedVal, kUsed, kCentroids, kIter,
          xPc, xCells, xLen, xIdx,
          mPc, mTemplates, mTemplateWrites, mParams, mQueue, mCalls,
          dNow, dParams, dTimers, dChanges, dStarted,
          fServer, fCache, fLoading, fErrors, fQueued, fEffect, fFetch>>

---------------------------------------------------------------------------
(* Generic helpers *)

Max(a, b) == IF a >= b THEN a ELSE b
Min(a, b) == IF a <= b THEN a ELSE b

RECURSIVE Flatten(_)
Flatten(rows) ==
  IF rows = <<>> THEN <<>> ELSE Head(rows) \o Flatten(Tail(rows))

RECURSIVE SumSeq(_)
SumSeq(s) == IF s = <<>> THEN 0 ELSE Head(s) + SumSeq(Tail(s))

Contains(seq, x) == \E i \in 1..Len(seq) : seq[i] = x

\* Position of the first occurrence of x in seq, 0 when absent.
FirstPos(seq, x) ==
  IF Contains(seq, x)
  THEN CHOOSE i \in 1..Len(seq) : seq[i] = x /\ \A j \in 1..(i-1) : seq[j] # x
  ELSE 0

---------------------------------------------------------------------------
(* Exact arithmetic on naturals beyond 2^31: little-endian limbs in base    *)
(* LimbBase, no leading zero limb; <<>> is 0.  It carries the products of   *)
(* JavaScript Numbers that the code forms (the generator's multiplication, *)
(* the SSIM products).                                                     *)

LimbBase == 16384

RECURSIVE NatFromInt(_)
NatFromInt(n) ==
  IF n = 0 THEN <<>> ELSE <<n % LimbBase>> \o NatFromInt(n \div LimbBase)

RECURSIVE NatAddC(_, _, _)
NatAddC(a, b, carry) ==
  IF a = <<>> /\ b = <<>> THEN (IF carry = 0 THEN <<>> ELSE <<carry>>)
  ELSE LET x == (IF a = <<>> THEN 0 ELSE a[1]) + (IF b = <<>> THEN 0 ELSE b[1]) + carry
       IN <<x % LimbBase>> \o NatAddC(IF a = <<>> THEN <<>> ELSE Tail(a),
                                      IF b = <<>> THEN <<>> ELSE Tail(b),
                                      x \div LimbBase)

NatAdd(a, b) == NatAddC(a, b, 0)

RECURSIVE NatMulSmall(_, _, _)
NatMulSmall(a, d, carry) ==
  IF a = <<>> THEN NatFromInt(carry)
  ELSE LET x == a[1] * d + carry
       IN <<x % LimbBase>> \o NatMulSmall(Tail(a), d, x \div LimbBase)

NatShift(a) == IF a = <<>> THEN <<>> ELSE <<0>> \o a

RECURSIVE NatMul(_, _)
NatMul(a, b) ==
  IF a = <<>> \/ b = <<>> THEN <<>>
  ELSE IF b[1] = 0 THEN NatShift(NatMul(a, Tail(b)))
  ELSE NatAdd(NatMulSmall(a, b[1], 0), NatShift(NatMul(a, Tail(b))))

\* -1, 0, 1 as a < b, a = b, a > b
RECURSIVE NatCmpTop(_, _, _)
NatCmpTop(a, b, i) ==
  IF i = 0 THEN 0
  ELSE IF a[i] < b[i] THEN -1
  ELSE IF a[i] > b[i] THEN 1
  ELSE NatCmpTop(a, b, i - 1)

NatCmp(a, b) ==
  IF Len(a) < Len(b) THEN -1
  ELSE IF Len(a) > Len(b) THEN 1
  ELSE NatCmpTop(a, b, Len(a))

NatLimb(a, i) == IF i <= Len(a) THEN a[i] ELSE 0

\* The number of bits of a limb
BitLenSmall(n) == Cardinality({k \in 0..14 : 2^k <= n})

NatBitLen(a) ==
  IF a = <<>> THEN 0 ELSE 14 * (Len(a) - 1) + BitLenSmall(a[Len(a)])

\* a - b for a >= b
RECURSIVE NatSubB(_, _, _)
NatSubB(a, b, borrow) ==
  IF a = <<>> THEN <<>>
  ELSE LET x == a[1] - (IF b = <<>> THEN 0 ELSE b[1]) - borrow
       IN <<x % LimbBase>>
          \o NatSubB(Tail(a), IF b = <<>> THEN <<>> ELSE Tail(b),
                     IF x < 0 THEN 1 ELSE 0)

RECURSIVE NatTrim(_)
NatTrim(a) ==
  IF a = <<>> THEN <<>>
  ELSE IF a[Len(a)] = 0 THEN NatTrim(SubSeq(a, 1, Len(a) - 1)) ELSE a

NatSub(a, b) == NatTrim(NatSubB(a, b, 0))

Pow2(d) == 2^d

\* a * 2^k
NatShl(a, k) ==
  IF a = <<>> THEN <<>>
  ELSE [i \in 1..(k \div 14) |-> 0] \o NatMulSmall(a, Pow2(k % 14), 0)

\* floor(a / d) for a small d, from the top limb down
RECURSIVE NatDivSmall(_, _, _)
NatDivSmall(a, d, rem) ==
  IF a = <<>> THEN <<>>
  ELSE LET x == rem * LimbBase + a[Len(a)]
       IN NatDivSmall(SubSeq(a, 1, Len(a) - 1), d, x % d) \o <<x \div d>>

\* floor(a / 2^k)
NatShr(a, k) ==
  IF Len(a) <= k \div 14 THEN <<>>
  ELSE NatTrim(NatDivSmall(SubSeq(a, (k \div 14) + 1, Len(a)), Pow2(k % 14), 0))

\* The quotient digit of r by b (r < b * LimbBase, top limb of b at least
\* LimbBase / 2): the estimate from the top limbs of r is at most 2 too large.
QHat(r, b) ==
  Min(LimbBase - 1,
      (NatLimb(r, Len(b) + 1) * LimbBase + NatLimb(r, Len(b))) \div b[Len(b)])

NatDigit(r, b, qhat) ==
  IF qhat = 0 \/ NatCmp(NatMulSmall(b, qhat, 0), r) <= 0 THEN qhat
  ELSE IF qhat = 1 \/ NatCmp(NatMulSmall(b, qhat - 1, 0), r) <= 0 THEN qhat - 1
  ELSE qhat - 2

\* Long division, limb i of a down to limb 1: <<quotient, remainder>>.  The
\* remainder so far takes the next limb and gives one digit of the quotient.
RECURSIVE NatDivLimbs(_, _, _, _, _)
NatDivLimbs(a, b, i, q, r) ==
  IF i = 0 THEN <<NatTrim(q), r>>
  ELSE LET r2 == NatTrim(<<a[i]>> \o r)
           d == NatDigit(r2, b, QHat(r2, b))
       IN IF d = 0 THEN NatDivLimbs(a, b, i - 1, <<0>> \o q, r2)
          ELSE NatDivLimbs(a, b, i - 1, <<d>> \o q,
                           NatSub(r2, NatMulSmall(b, d, 0)))

\* <<floor(a / b), a mod b>> for b > 0; both are scaled so that the top limb
\* of the divisor has its high bit set.
NatDivNorm(a, b, k) ==
  LET qr == NatDivLimbs(NatShl(a, k), NatShl(b, k), Len(NatShl(a, k)), <<>>, <<>>)
  IN <<qr[1], NatShr(qr[2], k)>>

NatDivMod(a, b) == NatDivNorm(a, b, 14 - BitLenSmall(b[Len(b)]))

\* The integer of limbs that hold less than 2^31
RECURSIVE NatToInt(_)
NatToInt(a) == IF a = <<>> THEN 0 ELSE a[1] + LimbBase * NatToInt(Tail(a))

---------------------------------------------------------------------------
(* Binary floating point: [neg, m, e] is (-1)^neg * m * 2^e with m a natural *)
(* of at most p bits.  p = 53 is a JavaScript Number, p = 24 a WGSL f32 or   *)
(* an element of a Float32Array.  Every operation is the exact result        *)
(* rounded to nearest, ties to even; the values formed stay far from the     *)
(* exponent limits.                                                          *)

F64 == 53
F32 == 24

Fl(neg, m, e) == [neg |-> neg, m |-> m, e |-> e]

FZero == Fl(FALSE, <<>>, 0)

FInt(n) == IF n < 0 THEN Fl(TRUE, NatFromInt(-n), 0) ELSE Fl(FALSE, NatFromInt(n), 0)

FRoundBits(p, neg, m, e, d) ==
  LET q == NatShr(m, d)
      c == NatCmp(NatShl(NatSub(m, NatShl(q, d)), 1), NatShl(<<1>>, d))
  IN Fl(neg, IF c > 0 \/ (c = 0 /\ NatLimb(q, 1) % 2 = 1)
             THEN NatAdd(q, <<1>>) ELSE q, e + d)

\* The value (-1)^neg * m * 2^e rounded to p bits.
FRound(p, neg, m, e) ==
  IF m = <<>> THEN FZero
  ELSE IF NatBitLen(m) <= p THEN Fl(neg, m, e)
  ELSE FRoundBits(p, neg, m, e, NatBitLen(m) - p)

\* a + b, exact
FAddExact(a, b) ==
  LET e == Min(a.e, b.e)
      x == NatShl(a.m, a.e - e)
      y == NatShl(b.m, b.e - e)
  IN IF a.neg = b.neg THEN Fl(a.neg, NatAdd(x, y), e)
     ELSE IF NatCmp(x, y) >= 0 THEN Fl(a.neg, NatSub(x, y), e)
     ELSE Fl(b.neg, NatSub(y, x), e)

FNeg(a) == Fl(~a.neg, a.m, a.e)

FRoundFl(p, x) == FRound(p, x.neg, x.m, x.e)

\* a + b; a zero operand leaves the other one, rounded to p bits
FAdd(p, a, b) ==
  IF a.m = <<>> THEN FRoundFl(p, b)
  ELSE IF b.m = <<>> THEN FRoundFl(p, a)
  ELSE FRoundFl(p, FAddExact(a, b))

FSub(p, a, b) == FAdd(p, a, FNeg(b))

FMul(p, a, b) ==
  IF a.m = <<>> \/ b.m = <<>> THEN FZero
  ELSE FRound(p, a.neg # b.neg, NatMul(a.m, b.m), a.e + b.e)

\* The quotient is carried to p + 2 bits or more and a sticky bit.
FDivShift(p, a, b, k) ==
  LET qr == NatDivMod(NatShl(a.m, k), b.m)
  IN FRound(p, a.neg # b.neg,
            NatMulSmall(qr[1], 2, IF qr[2] = <<>> THEN 0 ELSE 1),
            a.e - b.e - k - 1)

FDiv(p, a, b) ==
  IF a.m = <<>> THEN FZero
  ELSE FDivShift(p, a, b, Max(0, p + 2 + NatBitLen(b.m) - NatBitLen(a.m)))

\* a > b
FGreater(a, b) ==
  LET d == FAddExact(a, FNeg(b)) IN d.m # <<>> /\ ~d.neg

\* A decimal literal num/den of the source text, as the nearest value.
FLit(p, num, den) == FDiv(p, FInt(num), FInt(den))

---------------------------------------------------------------------------
(* Colors and cells *)

\* A CSS color string as the generators print it: "rgb(r, g, b)" (tag "rgb"),
\* the keyword 'transparent' (tag "transparent"), or null (tag "null").
CssRgb(r, g, b) == [tag |-> "rgb", r |-> r, g |-> g, b |-> b]
CssTransparent == [tag |-> "transparent", r |-> 0, g |-> 0, b |-> 0]
CssNull == [tag |-> "null", r |-> 0, g |-> 0, b |-> 0]

\* rgbToCss
rgbToCss(rgb) == CssRgb(rgb.r, rgb.g, rgb.b)

AsciiCell(ch, fg, bg, tr) ==
  [char |-> ch, fgColor |-> fg, bgColor |-> bg, transparent |-> tr]

---------------------------------------------------------------------------
(* Number and color formatting *)

DigitChars == <<"0", "1", "2", "3", "4", "5", "6", "7", "8", "9">>
HexChars == <<"0", "1", "2", "3", "4", "5", "6", "7", "8", "9",
              "A", "B", "C", "D", "E", "F">>

\* Number.prototype.toString() of a non-negative integer.
RECURSIVE DecStr(_)
DecStr(n) ==
  IF n < 10 THEN <<DigitChars[n + 1]>>
  ELSE DecStr(n \div 10) \o <<DigitChars[(n % 10) + 1]>>

\* toString(16) of a non-negative integer, upper-cased.
RECURSIVE HexStr(_)
HexStr(n) ==
  IF n < 16 THEN <<HexChars[n + 1]>>
  ELSE HexStr(n \div 16) \o <<HexChars[(n % 16) + 1]>>

\* padStart(2, '0')
PadStart2(s) == IF Len(s) < 2 THEN <<"0">> \o s ELSE s

\* rgbToHex: "rgb(r, g, b)" -> "#RRGGBB"; any other string is returned as is.
\* The result is a palette key: a hex string, or the unparsed input.
rgbToHex(css) ==
  IF css.tag = "rgb"
  THEN [hex |-> TRUE,
        text |-> <<"#">> \o PadStart2(HexStr(css.r)) \o PadStart2(HexStr(css.g))
                         \o PadStart2(HexStr(css.b)),
        raw |-> CssNull]
  ELSE [hex |-> FALSE, text |-> <<>>, raw |-> css]

---------------------------------------------------------------------------
(* convertToAsciiFormat *)

IsNullCell(cell) == cell.fgColor = CssNull \/ cell.bgColor = CssNull

\* First pass: the insertion-ordered keys of fgSet / bgSet.
RECURSIVE CollectKeys(_, _, _)
CollectKeys(cells, fg, acc) ==
  IF cells = <<>> THEN acc
  ELSE LET cell == Head(cells)
           key == rgbToHex(IF fg THEN cell.fgColor ELSE cell.bgColor)
       IN IF IsNullCell(cell) THEN CollectKeys(Tail(cells), fg, acc)
          ELSE IF Contains(acc, key) THEN CollectKeys(Tail(cells), fg, acc)
          ELSE CollectKeys(Tail(cells), fg, Append(acc, key))

\* The default of `?? 0`, taken for every key
PaletteIndexDefault(keys, key) == 0

\* fgSet.get(hex) ?? 0
PaletteIndex(keys, key) ==
  IF Contains(keys, key) THEN FirstPos(keys, key) - 1 ELSE 0

\* One cell of a data row.
EncodeCell(cell, fgKeys, bgKeys) ==
  IF IsNullCell(cell) THEN <<"-", "1", ",", "-", "1", ",", " ">>
  ELSE LET fgIdx == PaletteIndex(fgKeys, rgbToHex(cell.fgColor))
           bgIdx == PaletteIndex(bgKeys, rgbToHex(cell.bgColor))
           safeChar == IF cell.char = "|" THEN <<"\\", "|">> ELSE <<cell.char>>
       IN DecStr(fgIdx) \o <<",">> \o DecStr(bgIdx) \o <<",">> \o safeChar

\* row.map(...).join('|')
RECURSIVE JoinPipe(_)
JoinPipe(parts) ==
  IF parts = <<>> THEN <<>>
  ELSE IF Len(parts) = 1 THEN parts[1]
  ELSE parts[1] \o <<"|">> \o JoinPipe(Tail(parts))

EncodeRow(row, fgKeys, bgKeys) ==
  JoinPipe([i \in 1..Len(row) |-> EncodeCell(row[i], fgKeys, bgKeys)])

convertToAsciiFormat(unitId, width, asciiChars) ==
  LET cells == Flatten(asciiChars)
      fgKeys == CollectKeys(cells, TRUE, <<>>)
      bgKeys == CollectKeys(cells, FALSE, <<>>)
  IN [version |-> 1,
      unit_id |-> unitId,
      width |-> width,
      height |-> Len(asciiChars),
      fg_palette |-> fgKeys,
      bg_palette |-> bgKeys,
      data |-> [r \in 1..Len(asciiChars) |-> EncodeRow(asciiChars[r], fgKeys, bgKeys)]]

NoArtifact ==
  [version |-> 0, unit_id |-> "", width |-> 0, height |-> 0,
   fg_palette |-> <<>>, bg_palette |-> <<>>, data |-> <<>>]

---------------------------------------------------------------------------
(* kMeansCluster of the batch generator *)


\* A Number holds 53 significant bits: an integer result that needs more is
\* rounded to nearest, ties to even.  The values formed by the generator stay
\* below 2^63, so the bits dropped lie in the lowest limb.
RoundToDouble(a) ==
  IF NatBitLen(a) <= 53 THEN a
  ELSE LET d == NatBitLen(a) - 53
           low == a[1] % Pow2(d)
           keptOdd == (a[1] \div Pow2(d)) % 2 = 1
           trunc == [a EXCEPT ![1] = a[1] - low]
       IN IF low > Pow2(d - 1) \/ (low = Pow2(d - 1) /\ keptOdd)
          THEN NatAdd(trunc, NatFromInt(Pow2(d)))
          ELSE trunc

\* seedVal = (seedVal * 1103515245 + 12345) & 0x7fffffff
NextSeed(seedVal) ==
  LET prod == RoundToDouble(NatMul(NatFromInt(seedVal), NatFromInt(1103515245)))
      sum == RoundToDouble(NatAdd(prod, NatFromInt(12345)))
  IN NatLimb(sum, 1) + NatLimb(sum, 2) * 16384 + (NatLimb(sum, 3) % 8) * 268435456

\* Math.ceil in the place of Math.floor
SeedIndexCeil(seedVal, n) ==
  NatToInt(NatDivMod(NatMul(NatFromInt(seedVal), NatFromInt(n)),
                     NatFromInt(2147483647))[1]) + 1

\* Math.floor((seedVal / 0x7fffffff) * n).  0x7fffffff is prime, so for
\* 0 < seedVal < 0x7fffffff the exact quotient seedVal*n/0x7fffffff lies at
\* least 1/0x7fffffff away from an integer, far more than the rounding of the
\* two floating-point operations: the floor is that of the exact quotient.
SeedIndex(seedVal, n) ==
  IF seedVal = 2147483647 THEN n
  ELSE NatToInt(NatDivMod(NatMul(NatFromInt(seedVal), NatFromInt(n)),
                          NatFromInt(2147483647))[1])

\* A generator that goes on from the state the previous call left.
InitialSeedCarried(colors, prev) == prev

\* const seed = colors.length; let seedVal = seed: a generator of its own for
\* every call; the state prev that an earlier call left is not read.
InitialSeed(colors, prev) == Len(colors)

\* The seeding loop: draws until k distinct indices are used.
\* Result: the used indices in the order drawn, and the generator's last state.
RECURSIVE SeedLoop(_, _, _, _)
SeedLoop(n, k, seedVal, used) ==
  IF ~(Len(used) < k /\ Len(used) < n) THEN [used |-> used, seedVal |-> seedVal]
  ELSE LET s1 == NextSeed(seedVal)
           idx == SeedIndex(s1, n)
       IN IF Contains(used, idx) THEN SeedLoop(n, k, s1, used)
          ELSE SeedLoop(n, k, s1, Append(used, idx))

Rgb(r, g, b) == [r |-> r, g |-> g, b |-> b]

\* { ...colors[idx] } of an index past the end: an object without r, g, b.
UndefinedColor == [r |-> -1, g |-> -1, b |-> -1]

\* The squared Euclidean distance; Math.sqrt is strictly increasing on these
\* integers, so comparing squares is comparing the distances of the code.
SqDist(c, p) ==
  (c.r - p.r) * (c.r - p.r) + (c.g - p.g) * (c.g - p.g) + (c.b - p.b) * (c.b - p.b)

\* The inner loop over the centroids: minDist = Infinity (here -1), nearestIdx = 0,
\* replaced on dist < minDist only (the first of equal distances is kept).
RECURSIVE NearestFrom(_, _, _, _, _)
NearestFrom(color, centroids, i, minDist, nearestIdx) ==
  IF i > Len(centroids) THEN nearestIdx
  ELSE LET dist == SqDist(color, centroids[i])
       IN IF minDist = -1 \/ dist < minDist
          THEN NearestFrom(color, centroids, i + 1, dist, i - 1)
          ELSE NearestFrom(color, centroids, i + 1, minDist, nearestIdx)

NearestIdx(color, centroids) == NearestFrom(color, centroids, 1, -1, 0)

\* clusters[i]: the colors assigned to centroid i (0-based), in input order.
RECURSIVE ClusterOf(_, _, _)
ClusterOf(colors, centroids, i) ==
  IF colors = <<>> THEN <<>>
  ELSE (IF NearestIdx(Head(colors), centroids) = i THEN <<Head(colors)>> ELSE <<>>)
         \o ClusterOf(Tail(colors), centroids, i)

\* Math.round(sum / len) of non-negative integers: halves round up.
RoundDiv(sum, len) == (2 * sum + len) \div (2 * len)

ClusterMean(cluster) ==
  Rgb(RoundDiv(SumSeq([j \in 1..Len(cluster) |-> cluster[j].r]), Len(cluster)),
      RoundDiv(SumSeq([j \in 1..Len(cluster) |-> cluster[j].g]), Len(cluster)),
      RoundDiv(SumSeq([j \in 1..Len(cluster) |-> cluster[j].b]), Len(cluster)))

\* One refinement round: assign, then move every centroid that got a color.
UpdateCentroids(colors, centroids) ==
  [i \in 1..Len(centroids) |->
     LET cluster == ClusterOf(colors, centroids, i - 1)
     IN IF Len(cluster) > 0 THEN ClusterMean(cluster) ELSE centroids[i]]

RECURSIVE Refine(_, _, _)
Refine(colors, centroids, iterations) ==
  IF iterations = 0 THEN centroids
  ELSE Refine(colors, UpdateCentroids(colors, centroids), iterations - 1)

Iterations == 10

\* kMeansCluster(colors, k).  With k < 1 and colors present no centroid is
\* seeded and clusters is empty, so clusters[0].push throws a TypeError.
kMeansCluster(colors, k, prev) ==
  IF Len(colors) = 0 THEN [threw |-> FALSE, centroids |-> <<>>, seedVal |-> prev]
  ELSE IF Len(colors) <= k
       THEN [threw |-> FALSE, centroids |-> colors, seedVal |-> prev]
  ELSE LET seeded == SeedLoop(Len(colors), k, InitialSeed(colors, prev), <<>>)
           start == [i \in 1..Len(seeded.used) |->
                       IF seeded.used[i] < Len(colors)
                       THEN colors[seeded.used[i] + 1] ELSE UndefinedColor]
       IN IF k < 1
          THEN [threw |-> TRUE, centroids |-> <<>>, seedVal |-> seeded.seedVal]
          ELSE [threw |-> FALSE,
                centroids |-> Refine(colors, start, Iterations),
                seedVal |-> seeded.seedVal]

\* A second pass that keeps the cell's own color.
findNearestColorUnquantized(color, palette) == color

\* findNearestColor: the first palette entry at the least distance.
findNearestColor(color, palette) == palette[NearestIdx(color, palette) + 1]

---------------------------------------------------------------------------
(* processImage of the batch generator *)

Pixel(r, g, b, a) == [r |-> r, g |-> g, b |-> b, a |-> a]

\* CHAR_SETS.standard
CharSetStandard == <<" ", ".", ":", "-", "=", "+", "*", "#", "%", "@">>

CeilDiv(a, b) == (a + b - 1) \div b

\* 1000 * getBrightness(r, g, b): the weights are thousandths, so the sum is
\* kept as an integer number of thousandths.
Brightness1000(r, g, b) == 299 * r + 587 * g + 114 * b

\* fillRect('#000000') then drawImage: source-over on opaque black.
CompositeOnBlack(p) ==
  Pixel((p.r * p.a + 127) \div 255, (p.g * p.a + 127) \div 255,
        (p.b * p.a + 127) \div 255, 255)

\* drawImage(img, 0, 0, width, height): the canvas pixel takes the source
\* pixel its centre falls in.  The inputs drawn are images of the size of the
\* canvas, copied pixel for pixel, and images of one color, which every
\* resampling filter leaves in that color.
Resample(img, width, height) ==
  [y \in 1..height |-> [x \in 1..width |->
     img.px[(((2 * y - 1) * img.h) \div (2 * height)) + 1]
           [(((2 * x - 1) * img.w) \div (2 * width)) + 1]]]

\* The canvas after fillRect and drawImage(img, 0, 0, width, height)
BatchCanvas(img, width, height) ==
  [y \in 1..height |-> [x \in 1..width |->
     CompositeOnBlack(Resample(img, width, height)[y][x])]]

\* The pixels the loops over y and x read for cell (row, col), both 0-based,
\* in the order they read them: the loops stop at the canvas edge.
CellPixels(pixels, row, col, cellWidth, cellHeight) ==
  LET ys == {y \in (row * cellHeight)..((row + 1) * cellHeight - 1) :
               y < Len(pixels)}
      xs == {x \in (col * cellWidth)..((col + 1) * cellWidth - 1) :
               x < Len(pixels[1])}
  IN [i \in 1..(Cardinality(ys) * Cardinality(xs)) |->
        pixels[row * cellHeight + ((i - 1) \div Cardinality(xs)) + 1]
              [col * cellWidth + ((i - 1) % Cardinality(xs)) + 1]]

\* First pass over one cell of the batch generator: every pixel counts.
BatchCellData(pxs) ==
  LET n == Len(pxs)
      dark == SelectSeq(pxs, LAMBDA q : Brightness1000(q.r, q.g, q.b) < 128000)
      dn == Len(dark)
  IN [brightness |-> [sum1000 |-> SumSeq([i \in 1..n |->
                                   Brightness1000(pxs[i].r, pxs[i].g, pxs[i].b)]),
                      count |-> n],
      avgColor |-> Rgb(RoundDiv(SumSeq([i \in 1..n |-> pxs[i].r]), n),
                       RoundDiv(SumSeq([i \in 1..n |-> pxs[i].g]), n),
                       RoundDiv(SumSeq([i \in 1..n |-> pxs[i].b]), n)),
      darkColor |-> IF dn > 0
                    THEN Rgb(RoundDiv(SumSeq([i \in 1..dn |-> dark[i].r]), dn),
                             RoundDiv(SumSeq([i \in 1..dn |-> dark[i].g]), dn),
                             RoundDiv(SumSeq([i \in 1..dn |-> dark[i].b]), dn))
                    ELSE Rgb(0, 0, 0)]

\* The index counted from 1 instead of 0.
CharIdxFromOne(brightness, len) ==
  IF brightness.count = 0 THEN 0
  ELSE ((brightness.sum1000 * (len - 1)) \div (brightness.count * 255000)) - 1

\* Math.floor((brightness / 255) * (chars.length - 1)), 0-based
CharIdx(brightness, len) ==
  IF brightness.count = 0 THEN 0
  ELSE (brightness.sum1000 * (len - 1)) \div (brightness.count * 255000)

\* Square cells: cellHeight = cellWidth.
GeometryOfSquareCells(imgWidth, imgHeight, textWidth) ==
  [cellWidth |-> CeilDiv(imgWidth, textWidth),
   cellHeight |-> CeilDiv(imgWidth, textWidth),
   cols |-> textWidth,
   rows |-> CeilDiv(imgHeight, CeilDiv(imgWidth, textWidth)),
   canvasWidth |-> textWidth * CeilDiv(imgWidth, textWidth),
   canvasHeight |-> CeilDiv(imgHeight, CeilDiv(imgWidth, textWidth))
                      * CeilDiv(imgWidth, textWidth)]

\* cellWidth, cellHeight, cols, rows and the canvas size of processImage
Geometry(imgWidth, imgHeight, textWidth) ==
  [cellWidth |-> CeilDiv(imgWidth, textWidth),
   cellHeight |-> 2 * CeilDiv(imgWidth, textWidth),
   cols |-> textWidth,
   rows |-> CeilDiv(imgHeight, 2 * CeilDiv(imgWidth, textWidth)),
   canvasWidth |-> textWidth * CeilDiv(imgWidth, textWidth),
   canvasHeight |-> CeilDiv(imgHeight, 2 * CeilDiv(imgWidth, textWidth))
                    * 2 * CeilDiv(imgWidth, textWidth)]

\* First pass: cellData[row][col] for the whole grid.
FirstPassOn(pixels, geo) ==
  [row \in 1..geo.rows |-> [col \in 1..geo.cols |->
     BatchCellData(CellPixels(pixels, row - 1, col - 1, geo.cellWidth,
                              geo.cellHeight))]]

FirstPass(img, textWidth) ==
  FirstPassOn(BatchCanvas(img, Geometry(img.w, img.h, textWidth).canvasWidth,
                          Geometry(img.w, img.h, textWidth).canvasHeight),
              Geometry(img.w, img.h, textWidth))

\* allFgColors (fg) or allBgColors, in the order of the pushes.
AllColors(cellData, fg) ==
  Flatten([row \in 1..Len(cellData) |-> [col \in 1..Len(cellData[row]) |->
             IF fg THEN cellData[row][col].avgColor
             ELSE cellData[row][col].darkColor]])

\* Second pass of processImage with the two palettes.
SecondPass(cellData, options, fgPalette, bgPalette) ==
  [row \in 1..Len(cellData) |-> [col \in 1..Len(cellData[row]) |->
     AsciiCell(CharSetStandard[CharIdx(cellData[row][col].brightness,
                                       Len(CharSetStandard)) + 1],
               rgbToCss(findNearestColor(cellData[row][col].avgColor, fgPalette)),
               rgbToCss(IF options.useBgColors
                        THEN findNearestColor(cellData[row][col].darkColor,
                                              bgPalette)
                        ELSE Rgb(0, 0, 0)),
               FALSE)]]

\* The background clustering, run when the foreground one has returned.
BgRun(cellData, options, fgRun) ==
  IF fgRun.threw \/ ~options.useBgColors
  THEN [threw |-> fgRun.threw, centroids |-> <<Rgb(0, 0, 0)>>,
        seedVal |-> fgRun.seedVal]
  ELSE kMeansCluster(AllColors(cellData, FALSE), options.bgQuant, fgRun.seedVal)

\* const fgPalette = kMeansCluster(allFgColors, fgQuant); const bgPalette = ...
\* prev is the generator state an earlier kMeansCluster call left.
\* Result: threw, the two palettes, and the generator state left behind.
Palettes(fgRun, bgRun) ==
  [threw |-> bgRun.threw, fgPalette |-> fgRun.centroids,
   bgPalette |-> bgRun.centroids, seedVal |-> bgRun.seedVal]

QuantizeFrom(cellData, options, fgRun) ==
  Palettes(fgRun, BgRun(cellData, options, fgRun))

Quantize(cellData, options, prev) ==
  QuantizeFrom(cellData, options,
               kMeansCluster(AllColors(cellData, TRUE), options.fgQuant, prev))

---------------------------------------------------------------------------
(* SSIM matching: calculateSSIM and the CPU loop of the interactive         *)
(* generator, and the compute shader of the GPU matcher                      *)

\* The literals 0.299, 0.587 and 0.114 as Numbers
LumaR == FLit(F64, 299, 1000)
LumaG == FLit(F64, 587, 1000)
LumaB == FLit(F64, 114, 1000)

\* getBrightness(r, g, b) = 0.299 * r + 0.587 * g + 0.114 * b, a Number
getBrightness(r, g, b) ==
  FAdd(F64, FAdd(F64, FMul(F64, LumaR, FInt(r)), FMul(F64, LumaG, FInt(g))),
            FMul(F64, LumaB, FInt(b)))

\* acc += xs[i], i ascending; a sum of zero goes on as FZero
RECURSIVE FSum(_, _, _)
FSum(p, xs, acc) ==
  IF xs = <<>> THEN acc
  ELSE LET s == FAdd(p, acc, Head(xs))
       IN IF s.m = <<>> THEN FSum(p, Tail(xs), FZero) ELSE FSum(p, Tail(xs), s)

\* acc += (xs[i] - mx) * (ys[i] - my), i ascending
RECURSIVE FSumProd(_, _, _, _, _, _)
FSumProd(p, xs, ys, mx, my, acc) ==
  IF xs = <<>> THEN acc
  ELSE LET s == FAdd(p, acc, FMul(p, FSub(p, Head(xs), mx),
                                     FSub(p, Head(ys), my)))
       IN IF s.m = <<>> THEN FSumProd(p, Tail(xs), Tail(ys), mx, my, FZero)
          ELSE FSumProd(p, Tail(xs), Tail(ys), mx, my, s)

\* (k * L) ** 2 with k = num/100 and L = 255; x ** 2 is taken as x * x.
SsimConstant(num) ==
  FMul(F64, FMul(F64, FLit(F64, num, 100), FInt(255)),
            FMul(F64, FLit(F64, num, 100), FInt(255)))

\* const c1 = (k1 * L) ** 2; const c2 = (k2 * L) ** 2
c1 == SsimConstant(1)
c2 == SsimConstant(3)

\* numerator / denominator of calculateSSIM from the five statistics
SsimFormula(mean1, mean2, var1, var2, covar) ==
  FDiv(F64,
       FMul(F64, FAdd(F64, FMul(F64, FMul(F64, FInt(2), mean1), mean2),
                      c1),
                 FAdd(F64, FMul(F64, FInt(2), covar), c2)),
       FMul(F64, FAdd(F64, FAdd(F64, FMul(F64, mean1, mean1),
                                     FMul(F64, mean2, mean2)),
                      c1),
                 FAdd(F64, FAdd(F64, var1, var2), c2)))

SsimFromMeans(img1, img2, n, mean1, mean2) ==
  SsimFormula(mean1, mean2,
              FDiv(F64, FSumProd(F64, img1, img1, mean1, mean1, FZero), n),
              FDiv(F64, FSumProd(F64, img2, img2, mean2, mean2, FZero), n),
              FDiv(F64, FSumProd(F64, img1, img2, mean1, mean2, FZero), n))

\* calculateSSIM(img1, img2): 0 when the lengths differ or are 0.
calculateSSIM(img1, img2) ==
  IF Len(img1) # Len(img2) \/ Len(img1) = 0 THEN FZero
  ELSE SsimFromMeans(img1, img2, FInt(Len(img1)),
                     FDiv(F64, FSum(F64, img1, FZero), FInt(Len(img1))),
                     FDiv(F64, FSum(F64, img2, FZero), FInt(Len(img1))))

\* Scores kept from the match before.
CpuScoresKept(grayscale, templates) ==
  IF sScores # <<>> THEN sScores
  ELSE [t \in 1..Len(templates) |-> calculateSSIM(grayscale, templates[t])]

\* ssim of the CPU loop for every template, in the order of charTemplates
CpuScores(grayscale, templates) ==
  [t \in 1..Len(templates) |-> calculateSSIM(grayscale, templates[t])]

\* A loop that keeps the first template whatever the scores.
RECURSIVE CpuFirst(_, _, _, _)
CpuFirst(scores, t, bestSSIM, best) == IF Len(scores) = 0 THEN -1 ELSE 0

\* The CPU loop over charTemplates from template t on: bestSSIM = -1 at the
\* start, replaced on ssim > bestSSIM.  Result: 0-based index of the template
\* whose char is bestChar, -1 while bestChar is still ' '.
RECURSIVE CpuBest(_, _, _, _)
CpuBest(scores, t, bestSSIM, best) ==
  IF t > Len(scores) THEN best
  ELSE IF FGreater(scores[t], bestSSIM)
  THEN CpuBest(scores, t + 1, scores[t], t - 1)
  ELSE CpuBest(scores, t + 1, bestSSIM, best)

\* new Float32Array / Float32Array.set: every Number rounded to f32
ToFloat32Array(xs) == [i \in 1..Len(xs) |-> FRoundFl(F32, xs[i])]

\* c1, c2 of the shader: (params.k * params.L) * (params.k * params.L)
ShaderConstant(k, L) == FMul(F32, FMul(F32, k, L), FMul(F32, k, L))

ShaderFormula(params, cellMean, templateMean, cellVar, templateVar, covar) ==
  FDiv(F32,
       FMul(F32, FAdd(F32, FMul(F32, FMul(F32, FInt(2), cellMean), templateMean),
                      ShaderConstant(params.k1, params.L)),
                 FAdd(F32, FMul(F32, FInt(2), covar),
                      ShaderConstant(params.k2, params.L))),
       FMul(F32, FAdd(F32, FAdd(F32, FMul(F32, cellMean, cellMean),
                                     FMul(F32, templateMean, templateMean)),
                      ShaderConstant(params.k1, params.L)),
                 FAdd(F32, FAdd(F32, cellVar, templateVar),
                      ShaderConstant(params.k2, params.L))))

\* ssim of the shader for one template, given the cell's mean and variance
ShaderSsimFrom(params, cell, tmpl, n, cellMean, cellVar, templateMean) ==
  ShaderFormula(params, cellMean, templateMean, cellVar,
     FDiv(F32, FSumProd(F32, tmpl, tmpl, templateMean, templateMean, FZero), n),
     FDiv(F32, FSumProd(F32, cell, tmpl, cellMean, templateMean, FZero), n))

ShaderSsim(params, cell, tmpl, n, cellMean, cellVar) ==
  ShaderSsimFrom(params, cell, tmpl, n, cellMean, cellVar,
                 FDiv(F32, FSum(F32, tmpl, FZero), n))

\* templates[t * pixelsPerCell + i], i < pixelsPerCell (t 0-based)
Slice(buffer, t, pixelsPerCell) ==
  SubSeq(buffer, t * pixelsPerCell + 1, (t + 1) * pixelsPerCell)

\* The cell's variance, then ssim for every template t < numTemplates
ShaderScoresFrom(params, cell, templates, n, cellMean, cellVar) ==
  [t \in 1..params.numTemplates |->
     ShaderSsim(params, cell, Slice(templates, t - 1, params.pixelsPerCell),
                n, cellMean, cellVar)]

ShaderScoresOf(params, cell, templates, n, cellMean) ==
  ShaderScoresFrom(params, cell, templates, n, cellMean,
     FDiv(F32, FSumProd(F32, cell, cell, cellMean, cellMean, FZero), n))

\* The values ssim takes in invocation cellIdx of main, template by template
ShaderScores(params, cells, templates, cellIdx) ==
  ShaderScoresOf(params, Slice(cells, cellIdx, params.pixelsPerCell), templates,
     FInt(params.pixelsPerCell),
     FDiv(F32, FSum(F32, Slice(cells, cellIdx, params.pixelsPerCell), FZero),
          FInt(params.pixelsPerCell)))

\* if (ssim > bestSsim)
ShaderBetter(ssim, bestSsim) == FGreater(ssim, bestSsim)

\* The loop over templates of the shader, from template t (0-based) on:
\* bestSsim = -1.0 and bestTemplate = 0 at the start.
RECURSIVE ShaderBest(_, _, _, _)
ShaderBest(scores, t, bestSsim, bestTemplate) ==
  IF t >= Len(scores) THEN bestTemplate
  ELSE IF ShaderBetter(scores[t + 1], bestSsim)
  THEN ShaderBest(scores, t + 1, scores[t + 1], t)
  ELSE ShaderBest(scores, t + 1, bestSsim, bestTemplate)

\* setFloat32(12, 0.01) and setFloat32(16, 0.03): the Numbers rounded to f32
ParamK1 == FRoundFl(F32, FLit(F64, 1, 100))
ParamK2 == FRoundFl(F32, FLit(F64, 3, 100))

\* The uniform block match() writes: setFloat32 of 0.01, 0.03 and 255.
ShaderParams(numCells, numTemplates, cellPixels) ==
  [numCells |-> numCells, numTemplates |-> numTemplates,
   pixelsPerCell |-> cellPixels,
   k1 |-> ParamK1,
   k2 |-> ParamK2,
   L |-> FInt(255)]

---------------------------------------------------------------------------
(* The renderer's decoder of an artifact: rows are split on unescaped '|',  *)
(* each cell is read as fgIndex,bgIndex,char and the indices are looked up  *)
(* in the palettes.                                                         *)

\* Split a row on every '|' that is not preceded by a backslash.
RECURSIVE SplitPipe(_, _, _)
SplitPipe(s, cur, acc) ==
  IF s = <<>> THEN Append(acc, cur)
  ELSE IF Head(s) = "\\" /\ Len(s) >= 2 /\ s[2] = "|"
       THEN SplitPipe(SubSeq(s, 3, Len(s)), cur \o <<"\\", "|">>, acc)
  ELSE IF Head(s) = "|" THEN SplitPipe(Tail(s), <<>>, Append(acc, cur))
  ELSE SplitPipe(Tail(s), Append(cur, Head(s)), acc)

DigitValue(ch) == FirstPos(DigitChars, ch) - 1
HexValue(ch) == FirstPos(HexChars, ch) - 1

\* parseInt of an optionally signed run of decimal digits; -2 when malformed.
RECURSIVE ParseDigits(_, _)
ParseDigits(s, acc) ==
  IF s = <<>> THEN acc
  ELSE IF DigitValue(Head(s)) < 0 THEN -2
  ELSE ParseDigits(Tail(s), acc * 10 + DigitValue(Head(s)))

ParseIndex(s) ==
  IF s = <<>> THEN -2
  ELSE IF Head(s) = "-"
       THEN (IF Tail(s) = <<>> \/ ParseDigits(Tail(s), 0) < 0 THEN -2
             ELSE 0 - ParseDigits(Tail(s), 0))
  ELSE ParseDigits(s, 0)

\* "#RRGGBB" -> the color it names; other palette entries are kept as they are.
PaletteColor(key) ==
  IF key.hex /\ Len(key.text) = 7 /\ \A i \in 2..7 : HexValue(key.text[i]) >= 0
  THEN CssRgb(HexValue(key.text[2]) * 16 + HexValue(key.text[3]),
              HexValue(key.text[4]) * 16 + HexValue(key.text[5]),
              HexValue(key.text[6]) * 16 + HexValue(key.text[7]))
  ELSE key.raw

Malformed == [ok |-> FALSE, fgIndex |-> -2, bgIndex |-> -2, char |-> <<>>]

DecodeCellText(c) ==
  LET p1 == FirstPos(c, ",")
      rest1 == IF p1 = 0 THEN <<>> ELSE SubSeq(c, p1 + 1, Len(c))
      p2 == FirstPos(rest1, ",")
      chText == IF p2 = 0 THEN <<>> ELSE SubSeq(rest1, p2 + 1, Len(rest1))
  IN IF p1 = 0 \/ p2 = 0 THEN Malformed
     ELSE [ok |-> TRUE,
           fgIndex |-> ParseIndex(SubSeq(c, 1, p1 - 1)),
           bgIndex |-> ParseIndex(SubSeq(rest1, 1, p2 - 1)),
           char |-> IF chText = <<"\\", "|">> THEN <<"|">> ELSE chText]

DecodeRow(row) ==
  LET parts == SplitPipe(row, <<>>, <<>>)
  IN [i \in 1..Len(parts) |-> DecodeCellText(parts[i])]

DecodeArtifact(art) == [r \in 1..Len(art.data) |-> DecodeRow(art.data[r])]

\* The color a decoded index names, CssNull when the index names none.
Lookup(palette, idx) ==
  IF idx >= 0 /\ idx < Len(palette) THEN PaletteColor(palette[idx + 1]) ELSE CssNull

---------------------------------------------------------------------------
(* SpecEnc: the encoder and the decoder applied to a bounded set of grids *)

MaxEncCells == 2

\* Characters of the 'detailed' ramp that meet the row syntax, and a plain one.
EncChars == {"a", "|", "\\", ","}

EncColors == {CssRgb(255, 0, 0), CssRgb(255, 255, 255)}

EncCellKinds ==
  {AsciiCell(ch, fg, CssRgb(0, 0, 0), FALSE) : ch \in EncChars, fg \in EncColors}
    \cup {AsciiCell(" ", CssNull, CssNull, FALSE),
          AsciiCell(" ", CssTransparent, CssTransparent, TRUE),
          AsciiCell("a", CssRgb(255, 255, 255), CssRgb(171, 0, 9), FALSE)}

EncShapes ==
  {<<r, c>> \in (1..MaxEncCells) \X (1..MaxEncCells) :
     r * c <= MaxEncCells /\ (r = 1 \/ c = 1)}

EncGrids ==
  UNION {[1..sh[1] -> [1..sh[2] -> EncCellKinds]] : sh \in EncShapes}

\* No kMeansCluster call has been made yet.
NoQuant == [threw |-> FALSE, fgPalette |-> <<>>, bgPalette |-> <<>>, seedVal |-> 0]

BatchIdle ==
  /\ bPc = "idle"
  /\ bArgs = <<>>
  /\ bConfig = <<>>
  /\ bImages = <<>>
  /\ bIi = 0
  /\ bWi = 0
  /\ bWritten = <<>>
  /\ bErrors = <<>>
  /\ bTotalFiles = 0
  /\ bTotalBytes = 0
  /\ bQuant = NoQuant
  /\ bAscii = <<>>

SsimIdle ==
  /\ sCell = <<>>
  /\ sTemplates = <<>>
  /\ sScores = <<>>
  /\ sCpu = <<>>
  /\ sGpuScores = <<>>
  /\ sGpu = <<>>
  /\ sPrior = <<>>

NoImage == [w |-> 0, h |-> 0, px |-> <<>>]

NoCall == [textWidth |-> 0, cellWidth |-> 0, useStructure |-> FALSE,
           charTemplates |-> <<>>, cellData |-> <<>>,
           fgPalette |-> <<>>, bgPalette |-> <<>>, matcher |-> 0,
           matcherTemplates |-> <<>>, log |-> <<>>]

GenIdle ==
  /\ gImage = NoImage
  /\ gTextWidth = 0
  /\ gAlgorithm = "brightness"
  /\ gCharTemplates = <<>>
  /\ gMatcherRef = <<>>
  /\ gPending = {}
  /\ gCreated = 0
  /\ gDestroyed = {}
  /\ gGpuStatus = "checking"
  /\ gInitLog = {}
  /\ gTimer = FALSE
  /\ gCall = NoCall
  /\ gGens = <<>>
  /\ gAsciiOutput = <<>>
  /\ gIsProcessing = FALSE
  /\ gLast = <<>>

\* const diagnostics = { hasNavigatorGpu: false, hasAdapter: false,
\* hasDevice: false }: adapterInfo and error are absent, <<>>
NewDiagnostics ==
  [hasNavigatorGpu |-> FALSE, hasAdapter |-> FALSE, hasDevice |-> FALSE,
   adapterInfo |-> <<>>, error |-> <<>>]

NoEnv == [isSecureContext |-> FALSE, gpu |-> FALSE, adapter |-> "none",
          device |-> "none"]

ProbeIdle ==
  /\ pPc = "idle"
  /\ pEnv = NoEnv
  /\ pDiag = NewDiagnostics

KMeansIdle ==
  /\ kPc = "idle"
  /\ kColors = <<>>
  /\ kK = 0
  /\ kSeedVal = 0
  /\ kUsed = <<>>
  /\ kCentroids = <<>>
  /\ kIter = 0

IndexIdle ==
  /\ xPc = "idle"
  /\ xCells = <<>>
  /\ xLen = 0
  /\ xIdx = <<>>

MatchIdle ==
  /\ mPc = "idle"
  /\ mTemplates = <<>>
  /\ mTemplateWrites = 0
  /\ mParams = <<>>
  /\ mQueue = <<>>
  /\ mCalls = <<>>

DebounceIdle ==
  /\ dNow = 0
  /\ dParams = 0
  /\ dTimers = {}
  /\ dChanges = <<>>
  /\ dStarted = <<>>

FactionIdle ==
  /\ fServer = <<>>
  /\ fCache = {}
  /\ fLoading = {}
  /\ fErrors = {}
  /\ fQueued = <<>>
  /\ fEffect = FALSE
  /\ fFetch = <<>>

EncInit ==
  /\ ProbeIdle
  /\ KMeansIdle
  /\ IndexIdle
  /\ BatchIdle
  /\ SsimIdle
  /\ GenIdle
  /\ MatchIdle
  /\ DebounceIdle
  /\ FactionIdle
  /\ encPc = "input"
  /\ encGrid \in EncGrids
  /\ encOut = NoArtifact
  /\ encDecoded = <<>>

EncIdle ==
  /\ encPc = "idle"
  /\ encGrid = <<>>
  /\ encOut = NoArtifact
  /\ encDecoded = <<>>

EncConvert ==
  /\ encPc = "input"
  /\ encOut' = convertToAsciiFormat("unit", Len(encGrid[1]), encGrid)
  /\ encPc' = "encoded"
  /\ UNCHANGED <<encGrid, encDecoded>>
  /\ UNCHANGED <<batchVars, ssimVars, genVars, probeVars, kmeansVars, indexVars, matchVars, debounceVars, factionVars>>

EncDecode ==
  /\ encPc = "encoded"
  /\ encDecoded' = DecodeArtifact(encOut)
  /\ encPc' = "decoded"
  /\ UNCHANGED <<encGrid, encOut>>
  /\ UNCHANGED <<batchVars, ssimVars, genVars, probeVars, kmeansVars, indexVars, matchVars, debounceVars, factionVars>>

EncNext == EncConvert \/ EncDecode

SpecEnc == EncInit /\ [][EncNext]_vars

---------------------------------------------------------------------------
(* parseArgs and main of the batch generator *)

\* The result of parseInt on an option's value.
Parsed(v) == [given |-> TRUE, nan |-> FALSE, v |-> v]
ParsedNaN == [given |-> TRUE, nan |-> TRUE, v |-> 0]
NotGiven == [given |-> FALSE, nan |-> FALSE, v |-> 0]

\* parseInt(next) || d
OrDefault(p, d) == IF p.nan \/ p.v = 0 THEN d ELSE p.v

\* parseArgs(): the options the model passes are --fg-quant, --bg-quant,
\* --no-bg and --widths.
parseArgs(args) ==
  [charSet |-> "standard",
   fgQuant |-> IF args.fg.given THEN OrDefault(args.fg, 8) ELSE 8,
   bgQuant |-> IF args.bg.given THEN OrDefault(args.bg, 4) ELSE 4,
   useBgColors |-> ~args.noBg,
   widths |-> LET kept == SelectSeq(args.widths,
                                    LAMBDA w : ~w.nan /\ w.v > 0)
              IN [i \in 1..Len(kept) |-> kept[i].v]]

BParseArgs ==
  /\ bPc = "start"
  /\ bConfig' = parseArgs(bArgs)
  /\ bIi' = 1
  /\ bWi' = 1
  /\ bPc' = "loop"
  /\ UNCHANGED <<bArgs, bImages, bWritten, bErrors, bTotalFiles, bTotalBytes,
                 bQuant, bAscii>>
  /\ UNCHANGED <<encVars, ssimVars, genVars, probeVars, kmeansVars, indexVars, matchVars, debounceVars, factionVars>>

\* img of the outer loop
bImage == bImages[bIi]

\* The unit of the directory with this id
ImageOf(unitId) ==
  bImages[CHOOSE i \in 1..Len(bImages) : bImages[i].unitId = unitId]

\* The options main passes to processImage for config.widths[bWi].
BatchOptions ==
  [width |-> bConfig.widths[bWi], charSet |-> bConfig.charSet,
   fgQuant |-> bConfig.fgQuant, bgQuant |-> bConfig.bgQuant,
   useBgColors |-> bConfig.useBgColors]

\* A file name without the width.
FileNamePerUnit(unitId, width) == <<unitId, ".json">>

\* `${img.unitId}_${width}.json`
FileName(unitId, width) == <<unitId, "_">> \o DecStr(width) \o <<".json">>

\* Length of JSON.stringify of a string of the given characters: the quotes,
\* and two characters for a quote or a backslash
JsonStringLength(chars) ==
  2 + Len(chars) + Len(SelectSeq(chars, LAMBDA ch : ch = "\"" \/ ch = "\\"))

\* Length of JSON.stringify of an array whose elements have these lengths
JsonArrayLength(lens) ==
  2 + SumSeq(lens) + (IF Len(lens) > 0 THEN Len(lens) - 1 ELSE 0)

\* A palette entry as a string: the hex text, or the unparsed 'transparent'
PaletteText(key) ==
  IF key.hex THEN key.text
  ELSE <<"t", "r", "a", "n", "s", "p", "a", "r", "e", "n", "t">>

\* jsonString.length for JSON.stringify(jsonData); a unit id of the model is
\* one character.
JsonLength(doc) ==
  2 + 6
  + (7 + 3) + Len(DecStr(doc.version))
  + (7 + 3) + JsonStringLength(<<doc.unit_id>>)
  + (5 + 3) + Len(DecStr(doc.width))
  + (6 + 3) + Len(DecStr(doc.height))
  + (10 + 3) + JsonArrayLength([i \in 1..Len(doc.fg_palette) |->
                                  JsonStringLength(PaletteText(doc.fg_palette[i]))])
  + (10 + 3) + JsonArrayLength([i \in 1..Len(doc.bg_palette) |->
                                  JsonStringLength(PaletteText(doc.bg_palette[i]))])
  + (4 + 3) + JsonArrayLength([i \in 1..Len(doc.data) |->
                                 JsonStringLength(doc.data[i])])

\* The try block runs to its end: the artifact is built and written.
BGenerate ==
  /\ ~bQuant'.threw
  /\ bAscii' = SecondPass(FirstPass(bImage, BatchOptions.width), BatchOptions,
                          bQuant'.fgPalette, bQuant'.bgPalette)
  /\ bWritten' = Append(bWritten,
       [name |-> FileName(bImage.unitId, BatchOptions.width),
        unit_id |-> bImage.unitId, width |-> BatchOptions.width,
        doc |-> convertToAsciiFormat(bImage.unitId, BatchOptions.width, bAscii')])
  /\ bTotalFiles' = bTotalFiles + 1
  /\ bTotalBytes' = bTotalBytes + JsonLength(bWritten'[Len(bWritten')].doc)
  /\ UNCHANGED bErrors

\* A catch block that counts the failed iteration as a file.
CaughtCounted(err) ==
  /\ bErrors' = Append(bErrors, [unit_id |-> bImage.unitId,
                                 width |-> BatchOptions.width, err |-> err])
  /\ bTotalFiles' = bTotalFiles + 1
  /\ UNCHANGED <<bWritten, bTotalBytes>>

\* The catch block: console.error, and the loop goes on
Caught(err) ==
  /\ bErrors' = Append(bErrors, [unit_id |-> bImage.unitId,
                                 width |-> BatchOptions.width, err |-> err])
  /\ UNCHANGED <<bWritten, bTotalFiles, bTotalBytes>>

\* writeFile rejects: the artifact was built, nothing is counted.
BWriteFails ==
  /\ ~bQuant'.threw
  /\ bAscii' = SecondPass(FirstPass(bImage, BatchOptions.width), BatchOptions,
                          bQuant'.fgPalette, bQuant'.bgPalette)
  /\ Caught("writeFile")

\* kMeansCluster threw inside processImage.
BCatch ==
  /\ bQuant'.threw
  /\ Caught("processImage")
  /\ UNCHANGED bAscii

\* loadImage rejects: the file does not decode.
BDecodeFails ==
  /\ ~bImage.decodes
  /\ Caught("loadImage")
  /\ UNCHANGED <<bQuant, bAscii>>

\* processImage up to the palettes, then the rest of the try block or the
\* catch block.
BProcess ==
  /\ bImage.decodes
  /\ bQuant' = Quantize(FirstPass(bImage, BatchOptions.width), BatchOptions,
                        bQuant.seedVal)
  /\ (BGenerate \/ BWriteFails \/ BCatch)

\* One iteration of main's inner loop
BIterate ==
  /\ bPc = "loop"
  /\ bIi <= Len(bImages)
  /\ bWi <= Len(bConfig.widths)
  /\ (BProcess \/ BDecodeFails)
  /\ bWi' = bWi + 1
  /\ UNCHANGED <<bPc, bArgs, bConfig, bImages, bIi>>
  /\ UNCHANGED <<encVars, ssimVars, genVars, probeVars, kmeansVars, indexVars, matchVars, debounceVars, factionVars>>

\* The inner loop has ended: the outer loop takes the next image.
BNextImage ==
  /\ bPc = "loop"
  /\ bIi <= Len(bImages)
  /\ bWi > Len(bConfig.widths)
  /\ bIi' = bIi + 1
  /\ bWi' = 1
  /\ UNCHANGED <<bPc, bArgs, bConfig, bImages, bWritten, bErrors, bTotalFiles,
                 bTotalBytes, bQuant, bAscii>>
  /\ UNCHANGED <<encVars, ssimVars, genVars, probeVars, kmeansVars, indexVars, matchVars, debounceVars, factionVars>>

\* The outer loop has ended: the summary is printed.
BFinish ==
  /\ bPc = "loop"
  /\ bIi > Len(bImages)
  /\ bPc' = "done"
  /\ UNCHANGED <<bArgs, bConfig, bImages, bIi, bWi, bWritten, bErrors,
                 bTotalFiles, bTotalBytes, bQuant, bAscii>>
  /\ UNCHANGED <<encVars, ssimVars, genVars, probeVars, kmeansVars, indexVars, matchVars, debounceVars, factionVars>>

---------------------------------------------------------------------------
(* SpecBatch: one run of the batch generator on a bounded set of images *)
(* and command lines                                                     *)

MaxCells == 4

PxK == Pixel(0, 0, 0, 255)
PxW == Pixel(255, 255, 255, 255)
PxB == Pixel(0, 0, 255, 255)
PxT == Pixel(0, 0, 0, 0)
PxR == Pixel(255, 0, 0, 255)

\* The two pixels of a cell one pixel wide: black, white, black over white,
\* blue, fully transparent.
CellPatterns ==
  {<<PxK, PxK>>, <<PxW, PxW>>, <<PxK, PxW>>, <<PxB, PxB>>, <<PxT, PxT>>}

\* <<columns, rows>> of cells
BatchShapes == {<<c, 1>> : c \in 1..MaxCells} \cup {<<1, 2>>}

\* Images whose cells are one pixel wide and two high at text width = image
\* width, so that drawImage copies the image unscaled.
BatchImages ==
  UNION {{[unitId |-> "u", decodes |-> TRUE, w |-> sh[1], h |-> 2 * sh[2],
           px |-> [y \in 1..(2 * sh[2]) |-> [x \in 1..sh[1] |->
                     g[((y - 1) \div 2) + 1][x][((y - 1) % 2) + 1]]]]
          : g \in [1..sh[2] -> [1..sh[1] -> CellPatterns]]}
         : sh \in BatchShapes}

\* Images of one color, of sizes that the text widths do not divide: the
\* canvas is larger than the image and drawImage scales it.
UniformImages ==
  {[unitId |-> "u", decodes |-> TRUE, w |-> wh[1], h |-> wh[2],
    px |-> [y \in 1..wh[2] |-> [x \in 1..wh[1] |-> PxR]]]
     : wh \in {<<1, 1>>, <<3, 2>>, <<2, 3>>, <<3, 5>>}}

\* A file with an image extension that loadImage cannot decode
Undecodable(unitId) ==
  [unitId |-> unitId, decodes |-> FALSE, w |-> 0, h |-> 0, px |-> <<>>]

\* Directories of two units, in the order findImages sorts them: two images
\* two pixels wide, or one of them and a file that does not decode.
BatchPairs ==
  LET two == {img \in BatchImages : img.w = 2 /\ img.h = 2
                /\ img.px[1][1] = PxK /\ img.px[1][2] \in {PxW, PxB}}
      a == {[img EXCEPT !.unitId = "a"] : img \in two}
      b == {[img EXCEPT !.unitId = "b"] : img \in two}
  IN {<<x, y>> : x \in a, y \in b}
     \cup {<<Undecodable("a"), y>> : y \in b}
     \cup {<<x, Undecodable("b")>> : x \in a}

\* What findImages returns
BatchDirectories ==
  {<<img>> : img \in BatchImages \cup UniformImages} \cup BatchPairs

BatchQuantArgs ==
  {[fg |-> f, bg |-> NotGiven, noBg |-> FALSE]
     : f \in {NotGiven, Parsed(0), Parsed(-1), Parsed(1), Parsed(2),
              Parsed(3)}}
  \cup {[fg |-> NotGiven, bg |-> b, noBg |-> FALSE]
     : b \in {ParsedNaN, Parsed(1), Parsed(17)}}
  \cup {[fg |-> f, bg |-> NotGiven, noBg |-> TRUE]
     : f \in {NotGiven, Parsed(2)}}
  \cup {[fg |-> Parsed(2), bg |-> Parsed(1), noBg |-> FALSE]}

\* --widths: the image's width alone, or an invalid width followed by the
\* image's width twice; for an image of one color every width up to MaxCells.
BatchWidthArgs(images) ==
  IF images[1] \in UniformImages THEN {<<Parsed(w)>> : w \in 1..MaxCells}
  ELSE LET w == IF images[1].decodes THEN images[1].w
                ELSE images[Len(images)].w
       IN {<<Parsed(w)>>, <<Parsed(0), Parsed(w), Parsed(w)>>}

BatchInit ==
  /\ EncIdle
  /\ ProbeIdle
  /\ KMeansIdle
  /\ IndexIdle
  /\ SsimIdle
  /\ GenIdle
  /\ MatchIdle
  /\ DebounceIdle
  /\ FactionIdle
  /\ bPc = "start"
  /\ bImages \in BatchDirectories
  /\ bIi = 0
  /\ \E q \in BatchQuantArgs : \E ws \in BatchWidthArgs(bImages) :
       bArgs = [fg |-> q.fg, bg |-> q.bg, noBg |-> q.noBg, widths |-> ws]
  /\ bConfig = <<>>
  /\ bWi = 0
  /\ bWritten = <<>>
  /\ bErrors = <<>>
  /\ bTotalFiles = 0
  /\ bTotalBytes = 0
  /\ bQuant = NoQuant
  /\ bAscii = <<>>

BatchNext == BParseArgs \/ BIterate \/ BNextImage \/ BFinish

SpecBatch == BatchInit /\ [][BatchNext]_vars

---------------------------------------------------------------------------
(* The two SSIM matchers of the interactive generator on one cell: the CPU  *)
(* loop of processImage over charTemplates, and one dispatch of the shader  *)
(* over the same cell and the same templates.  Cell and glyphs are gray     *)
(* rasters (r = g = b) of two pixels.                                       *)

MaxTemplates == 2

\* Glyph rasters as the canvas returns them: white text on black, any level
\* of gray where the glyph's edge is anti-aliased.
SsimRasters ==
  {<<128, 254>>, <<129, 255>>, <<254, 128>>, <<255, 129>>,
   <<0, 255>>, <<255, 0>>, <<255, 255>>}

SsimCells == {<<255, 128>>, <<128, 255>>, <<0, 255>>, <<64, 64>>}

SsimTemplateLists ==
  UNION {[1..n -> SsimRasters] : n \in 1..MaxTemplates}

\* grayscale.push(0.299 * r + 0.587 * g + 0.114 * b) over a gray raster
Grayscale(raster) ==
  [i \in 1..Len(raster) |-> getBrightness(raster[i], raster[i], raster[i])]

\* buildCharTemplates: one grayscale raster per structure character
TemplateData(rasters) == [t \in 1..Len(rasters) |-> Grayscale(rasters[t])]

\* templateData of createGpuSsimMatcher: the templates' data, concatenated
\* into one Float32Array
TemplateBuffer(rasters) == ToFloat32Array(Flatten(TemplateData(rasters)))

SsimInit ==
  /\ EncIdle
  /\ ProbeIdle
  /\ KMeansIdle
  /\ IndexIdle
  /\ BatchIdle
  /\ GenIdle
  /\ MatchIdle
  /\ DebounceIdle
  /\ FactionIdle
  /\ sCell \in SsimCells
  /\ sTemplates \in SsimTemplateLists
  /\ sScores = <<>>
  /\ sCpu = <<>>
  /\ sGpuScores = <<>>
  /\ sGpu = <<>>
  /\ sPrior = <<>>

\* The CPU loop of processImage for the cell
SsimCpu ==
  /\ sCpu = <<>>
  /\ sScores' = CpuScores(Grayscale(sCell), TemplateData(sTemplates))
  /\ sCpu' = <<CpuBest(sScores', 1, FNeg(FInt(1)), -1)>>
  /\ UNCHANGED <<sCell, sTemplates, sGpuScores, sGpu, sPrior>>
  /\ UNCHANGED <<encVars, batchVars, genVars, probeVars, kmeansVars, indexVars, matchVars, debounceVars, factionVars>>

\* match(allGrayscale, pixelsPerCell) with one cell: invocation 0 of main
\* writes results[0], the other invocations of the workgroup return at once.
SsimGpu ==
  /\ sGpu = <<>>
  /\ sGpuScores' = ShaderScores(ShaderParams(1, Len(sTemplates), Len(sCell)),
                                ToFloat32Array(Grayscale(sCell)),
                                TemplateBuffer(sTemplates), 0)
  /\ sGpu' = <<ShaderBest(sGpuScores', 0, FNeg(FInt(1)), 0)>>
  /\ UNCHANGED <<sCell, sTemplates, sScores, sCpu, sPrior>>
  /\ UNCHANGED <<encVars, batchVars, genVars, probeVars, kmeansVars, indexVars, matchVars, debounceVars, factionVars>>

\* The rasters of two templates change places (charTemplates is rebuilt)
\* after the cell was matched: the cell is to be matched again.
SsimSwap ==
  /\ sCpu # <<>>
  /\ sPrior = <<>>
  /\ Len(sTemplates) = 2
  /\ sTemplates' = <<sTemplates[2], sTemplates[1]>>
  /\ sPrior' = sCpu
  /\ sCpu' = <<>>
  /\ sGpu' = <<>>
  /\ UNCHANGED <<sCell, sScores, sGpuScores>>
  /\ UNCHANGED <<encVars, batchVars, genVars, probeVars, kmeansVars, indexVars, matchVars, debounceVars, factionVars>>

SsimNext == SsimCpu \/ SsimGpu \/ SsimSwap

SpecSsim == SsimInit /\ [][SsimNext]_vars

---------------------------------------------------------------------------
(* The interactive generator: the AsciiGenerator component with its GPU     *)
(* matcher effect, the debounced processImage and the await of match().     *)

MaxCreations == 2
MaxInFlight == 1

ALPHA_THRESHOLD == 128

\* STRUCTURE_CHARS, cut to its first MaxTemplates characters
StructureAlphabet == <<"c0", "c1", "c2", "c3">>
STRUCTURE_CHARS == SubSeq(StructureAlphabet, 1, MaxTemplates)

\* What fillText leaves on the template canvas for character t at n pixels:
\* white runs of t pixels on black.
GlyphRaster(t, n) ==
  [i \in 1..n |-> IF ((i - 1) \div t) % 2 = 0 THEN 255 ELSE 0]

\* buildCharTemplates(STRUCTURE_CHARS, cellWidth, cellHeight, FONT_FAMILY)
buildCharTemplates(cellWidth, cellHeight) ==
  [t \in 1..Len(STRUCTURE_CHARS) |->
     [char |-> STRUCTURE_CHARS[t],
      data |-> Grayscale(GlyphRaster(t, cellWidth * cellHeight))]]

\* const cellWidth = imageWidth > 0 ? Math.ceil(imageWidth / textWidth) : 0
CellWidthOf(imageWidth, textWidth) ==
  IF imageWidth > 0 THEN CeilDiv(imageWidth, textWidth) ELSE 0

\* The charTemplates memo for a cell width (cellHeight = cellWidth * 2)
CharTemplatesOf(cellWidth) ==
  IF cellWidth = 0 THEN <<>> ELSE buildCharTemplates(cellWidth, cellWidth * 2)

\* templateData of the matcher effect: the templates in one Float32Array
TemplateDataOf(charTemplates) ==
  ToFloat32Array(Flatten([t \in 1..Len(charTemplates) |-> charTemplates[t].data]))

\* clearRect then drawImage(img, 0, 0, width, height) then getImageData: a
\* fully transparent pixel is read back as 0, 0, 0, 0.
GenCanvas(img, width, height) ==
  [y \in 1..height |-> [x \in 1..width |->
     IF Resample(img, width, height)[y][x].a = 0 THEN Pixel(0, 0, 0, 0)
     ELSE Resample(img, width, height)[y][x]]]

\* First pass over one cell of the interactive generator
GenCellData(pxs) ==
  LET n == Len(pxs)
      opaque == SelectSeq(pxs, LAMBDA q : q.a > 0)
      on == Len(opaque)
      dark == SelectSeq(opaque, LAMBDA q : Brightness1000(q.r, q.g, q.b) < 128000)
      dn == Len(dark)
  IN [brightness |-> [sum1000 |-> SumSeq([i \in 1..on |->
                         Brightness1000(opaque[i].r, opaque[i].g, opaque[i].b)]),
                      count |-> on],
      avgColor |-> IF on > 0
                   THEN Rgb(RoundDiv(SumSeq([i \in 1..on |-> opaque[i].r]), on),
                            RoundDiv(SumSeq([i \in 1..on |-> opaque[i].g]), on),
                            RoundDiv(SumSeq([i \in 1..on |-> opaque[i].b]), on))
                   ELSE Rgb(0, 0, 0),
      darkColor |-> IF dn > 0
                    THEN Rgb(RoundDiv(SumSeq([i \in 1..dn |-> dark[i].r]), dn),
                             RoundDiv(SumSeq([i \in 1..dn |-> dark[i].g]), dn),
                             RoundDiv(SumSeq([i \in 1..dn |-> dark[i].b]), dn))
                    ELSE Rgb(0, 0, 0),
      grayscale |-> [i \in 1..n |->
                       IF pxs[i].a > 0
                       THEN getBrightness(pxs[i].r, pxs[i].g, pxs[i].b)
                       ELSE FZero],
      isTransparent |-> SumSeq([i \in 1..n |-> pxs[i].a]) < ALPHA_THRESHOLD * n]

\* First pass of the interactive processImage: cellData, row by row, with
\* rows = Math.ceil(img.height / cellHeight) and the canvas of cols * cellWidth
\* by rows * cellHeight
GenFirstPass(img, textWidth, cellWidth) ==
  [row \in 1..CeilDiv(img.h, cellWidth * 2) |->
     [col \in 1..textWidth |->
        GenCellData(CellPixels(GenCanvas(img, textWidth * cellWidth,
                                   CeilDiv(img.h, cellWidth * 2) * cellWidth * 2),
                               row - 1, col - 1, cellWidth, cellWidth * 2))]]

\* allFgColors (fg) or allBgColors: the colors of the cells that are not
\* transparent, in the order of the pushes
GenColors(cellData, fg) ==
  LET cells == SelectSeq(Flatten(cellData), LAMBDA cd : ~cd.isTransparent)
  IN [i \in 1..Len(cells) |->
        IF fg THEN cells[i].avgColor ELSE cells[i].darkColor]

\* The index sequences the seeding loop of kMeansCluster can end with: k
\* different indices below n, drawn with Math.random
SeedChoices(n, k) ==
  IF n = 0 \/ n <= k THEN {<<>>}
  ELSE {u \in [1..k -> 0..(n - 1)] : \A i, j \in 1..k : i # j => u[i] # u[j]}

\* kMeansCluster of the interactive generator, seeded with the indices used
GenKMeans(colors, k, used) ==
  IF Len(colors) = 0 THEN <<>>
  ELSE IF Len(colors) <= k THEN colors
  ELSE Refine(colors, [i \in 1..Len(used) |-> colors[used[i] + 1]], Iterations)

\* allGrayscale: the grayscale of every cell at cellIdx * pixelsPerCell
AllGrayscale(cellData) ==
  ToFloat32Array(Flatten([i \in 1..Len(Flatten(cellData)) |->
                            Flatten(cellData)[i].grayscale]))

\* The results buffer after dispatchWorkgroups(ceil(numCells / 64)): the
\* invocations with cellIdx < numCells write results[cellIdx]
ShaderResults(cells, templates, numTemplates, cellPixels) ==
  [c \in 1..(Len(cells) \div cellPixels) |->
     ShaderBest(ShaderScores(ShaderParams(Len(cells) \div cellPixels,
                                          numTemplates, cellPixels),
                             cells, templates, c - 1),
                0, FNeg(FInt(1)), 0)]

\* The CPU loop of the second pass for one cell
CpuChar(grayscale, charTemplates, best) ==
  IF best = -1 THEN " " ELSE charTemplates[best + 1].char

CpuLoop(grayscale, charTemplates) ==
  CpuChar(grayscale, charTemplates,
          CpuBest(CpuScores(grayscale,
                            [t \in 1..Len(charTemplates) |-> charTemplates[t].data]),
                  1, FNeg(FInt(1)), -1))

\* STRUCTURE_CHARS[gpuResults[cellIdx]] || ' '
GpuChar(gpuResults, cellIdx) ==
  IF gpuResults[cellIdx + 1] < Len(STRUCTURE_CHARS)
  THEN STRUCTURE_CHARS[gpuResults[cellIdx + 1] + 1] ELSE " "

\* char of the second pass; gpuResults = <<>> stands for null
GenChar(cd, cellIdx, useStructure, charTemplates, gpuResults) ==
  IF useStructure /\ Len(charTemplates) > 0
  THEN IF gpuResults # <<>> THEN GpuChar(gpuResults, cellIdx)
       ELSE IF Len(cd.grayscale) > 0 THEN CpuLoop(cd.grayscale, charTemplates)
       ELSE " "
  ELSE CharSetStandard[CharIdx(cd.brightness, Len(CharSetStandard)) + 1]

\* Second pass of the interactive processImage
GenSecondPass(cellData, textWidth, useStructure, charTemplates, gpuResults, fgPalette, bgPalette, useBgColors) ==
  [row \in 1..Len(cellData) |-> [col \in 1..textWidth |->
     IF cellData[row][col].isTransparent
     THEN AsciiCell(" ", CssTransparent, CssTransparent, TRUE)
     ELSE AsciiCell(GenChar(cellData[row][col], (row - 1) * textWidth + col - 1,
                            useStructure, charTemplates, gpuResults),
                    rgbToCss(findNearestColor(cellData[row][col].avgColor,
                                              fgPalette)),
                    rgbToCss(IF useBgColors
                             THEN findNearestColor(cellData[row][col].darkColor,
                                                   bgPalette)
                             ELSE Rgb(0, 0, 0)),
                    FALSE)]]

\* The images offered to the generator: 2 x 4 pixels, given by rows
GenRows == {<<PxW, PxK>>, <<PxW, PxT>>, <<PxW, PxW>>}
GenImages == {[w |-> 2, h |-> 4, px |-> <<r, r, r, r>>] : r \in GenRows}
GenWidths == {1, 2}

\* useState(8), useState(4), useState(true): not changed by the actions below
ColorQuantNum == 8
BgQuantNum == 4
UseBgColors == TRUE

GenInit ==
  /\ EncIdle
  /\ ProbeIdle
  /\ KMeansIdle
  /\ IndexIdle
  /\ BatchIdle
  /\ SsimIdle
  /\ MatchIdle
  /\ DebounceIdle
  /\ FactionIdle
  /\ gImage = NoImage
  /\ gTextWidth \in GenWidths
  /\ gAlgorithm \in {"brightness", "structure"}
  /\ gCharTemplates = <<>>
  /\ gMatcherRef = <<>>
  /\ gPending = {}
  /\ gCreated = 0
  /\ gDestroyed = {}
  /\ gGpuStatus = "checking"
  /\ gInitLog = {}
  /\ gTimer = FALSE
  /\ gCall = NoCall
  /\ gGens = <<>>
  /\ gAsciiOutput = <<>>
  /\ gIsProcessing = FALSE
  /\ gLast = <<>>

\* A render that keeps the templates it has once they are built
RenderKeepsTemplates(imageWidth, textWidth) ==
  IF CellWidthOf(imageWidth, textWidth) = CellWidthOf(gImage.w, gTextWidth)
  THEN UNCHANGED <<gCharTemplates, gMatcherRef, gPending, gCreated,
                   gDestroyed, gGpuStatus>>
  ELSE /\ gCreated < MaxCreations
       /\ gCharTemplates' = IF gCharTemplates = <<>>
                            THEN CharTemplatesOf(CellWidthOf(imageWidth, textWidth))
                            ELSE gCharTemplates
       /\ gCreated' = gCreated + 1
       /\ UNCHANGED <<gMatcherRef, gPending, gDestroyed, gGpuStatus>>

\* The render after imageWidth or textWidth changed, and the GPU matcher
\* effect if the cell size changed with it: the cleanup destroys the matcher
\* the ref holds, the body starts the creation of one for the new templates.
RenderCellSize(imageWidth, textWidth) ==
  IF CellWidthOf(imageWidth, textWidth) = CellWidthOf(gImage.w, gTextWidth)
  THEN UNCHANGED <<gCharTemplates, gMatcherRef, gPending, gCreated,
                   gDestroyed, gGpuStatus>>
  ELSE /\ gCreated < MaxCreations
       /\ gCharTemplates' = CharTemplatesOf(CellWidthOf(imageWidth, textWidth))
       /\ gDestroyed' = gDestroyed \cup {gMatcherRef[i].id : i \in 1..Len(gMatcherRef)}
       /\ gMatcherRef' = <<>>
       /\ gCreated' = gCreated + 1
       /\ gPending' = gPending \cup
            {[id |-> gCreated + 1,
              templates |-> TemplateDataOf(gCharTemplates'),
              numTemplates |-> Len(gCharTemplates'),
              templatePixelsPerCell |-> CellWidthOf(imageWidth, textWidth)
                                        * CellWidthOf(imageWidth, textWidth) * 2]}
       /\ gGpuStatus' = "checking"

\* img.onload of handleImageUpload / loadExampleImage
GLoadImage ==
  /\ gImage = NoImage
  /\ \E img \in GenImages : gImage' = img
  /\ RenderCellSize(gImage'.w, gTextWidth)
  /\ gAsciiOutput' = <<>>
  /\ gTimer' = TRUE
  /\ UNCHANGED <<gTextWidth, gAlgorithm, gInitLog, gCall, gGens,
                 gIsProcessing, gLast>>
  /\ UNCHANGED <<encVars, batchVars, ssimVars, probeVars, kmeansVars, indexVars, matchVars, debounceVars, factionVars>>

\* onChange of the text width input
GSetTextWidth ==
  /\ \E w \in GenWidths \ {gTextWidth} : gTextWidth' = w
  /\ RenderCellSize(gImage.w, gTextWidth')
  /\ gTimer' = (gImage # NoImage)
  /\ UNCHANGED <<gImage, gAlgorithm, gInitLog, gCall, gGens, gAsciiOutput,
                 gIsProcessing, gLast>>
  /\ UNCHANGED <<encVars, batchVars, ssimVars, probeVars, kmeansVars, indexVars, matchVars, debounceVars, factionVars>>

\* onChange of the algorithm select
GSetAlgorithm ==
  /\ gAlgorithm' = IF gAlgorithm = "brightness" THEN "structure" ELSE "brightness"
  /\ gTimer' = (gImage # NoImage)
  /\ UNCHANGED <<gImage, gTextWidth, gCharTemplates, gMatcherRef, gPending,
                 gCreated, gDestroyed, gGpuStatus, gInitLog, gCall, gGens,
                 gAsciiOutput, gIsProcessing, gLast>>
  /\ UNCHANGED <<encVars, batchVars, ssimVars, probeVars, kmeansVars, indexVars, matchVars, debounceVars, factionVars>>

\* .then((matcher) => ...) with a matcher: the ref is set, whatever it held
CreateResolves(p) ==
  /\ gMatcherRef' = <<p>>
  /\ gGpuStatus' = "available"
  /\ UNCHANGED gInitLog

\* createGpuSsimMatcher returned null: no navigator.gpu, no adapter, no device
CreateYieldsNull(p) ==
  /\ gGpuStatus' = "unavailable"
  /\ gInitLog' = gInitLog \cup {"warn: WebGPU not available"}
  /\ UNCHANGED gMatcherRef

\* .catch((err) => ...): createShaderModule or createComputePipeline threw
CreateRejects(p) ==
  /\ gGpuStatus' = "unavailable"
  /\ gInitLog' = gInitLog \cup {"warn: GPU matcher init failed"}
  /\ UNCHANGED gMatcherRef

\* A promise of createGpuSsimMatcher settles
GCreateSettles ==
  /\ \E p \in gPending :
       /\ gPending' = gPending \ {p}
       /\ (CreateResolves(p) \/ CreateYieldsNull(p) \/ CreateRejects(p))
  /\ UNCHANGED <<gImage, gTextWidth, gAlgorithm, gCharTemplates, gCreated,
                 gDestroyed, gTimer, gCall, gGens, gAsciiOutput,
                 gIsProcessing, gLast>>
  /\ UNCHANGED <<encVars, batchVars, ssimVars, probeVars, kmeansVars, indexVars, matchVars, debounceVars, factionVars>>

\* The locals of a processImage call when it reaches the matching
CallLocals(cellData, usedFg, usedBg) ==
  [textWidth |-> gTextWidth,
   cellWidth |-> CellWidthOf(gImage.w, gTextWidth),
   useStructure |-> gAlgorithm = "structure",
   charTemplates |-> gCharTemplates,
   cellData |-> cellData,
   fgPalette |-> GenKMeans(GenColors(cellData, TRUE), ColorQuantNum, usedFg),
   bgPalette |-> IF UseBgColors
                 THEN GenKMeans(GenColors(cellData, FALSE), BgQuantNum, usedBg)
                 ELSE <<Rgb(0, 0, 0)>>,
   matcher |-> 0,
   matcherTemplates |-> <<>>,
   log |-> <<>>]

\* An error thrown by match() that leaves processImage.
MatchErrorUncaught(log, err) ==
  [gpuResults |-> <<>>, log |-> log, rejected |-> TRUE]

\* try { gpuResults = await match(...) } catch (err) { console.warn(...) }:
\* gpuResults stays null and the call goes on
CatchMatchError(log, err) ==
  [gpuResults |-> <<>>, log |-> Append(log, err), rejected |-> FALSE]

\* The await returned the results: console.timeEnd
MatchReturned(log, results) ==
  [gpuResults |-> results, log |-> Append(log, "timeEnd"), rejected |-> FALSE]

\* No call of match(): the mode is brightness or the ref holds no matcher
NoMatch == [gpuResults |-> <<>>, log |-> <<>>, rejected |-> FALSE]

\* The rest of processImage after the matching: the second pass,
\* setAsciiOutput and setIsProcessing(false); nothing of it if the call
\* rejected
Finish(call, matched) ==
  /\ gLast' = <<[textWidth |-> call.textWidth, useStructure |-> call.useStructure,
                 log |-> matched.log, rejected |-> matched.rejected]>>
  /\ IF matched.rejected
     THEN /\ gIsProcessing' = TRUE
          /\ UNCHANGED gAsciiOutput
     ELSE /\ gIsProcessing' = FALSE
          /\ gAsciiOutput' =
               <<GenSecondPass(call.cellData, call.textWidth, call.useStructure,
                               call.charTemplates, matched.gpuResults,
                               call.fgPalette, call.bgPalette, UseBgColors)>>

\* processImage without a call of match()
ProcessSync ==
  /\ ~(gCall'.useStructure /\ gMatcherRef # <<>>)
  /\ Finish(gCall', NoMatch)
  /\ UNCHANGED gGens

\* match() throws: cellPixels !== templatePixelsPerCell
ProcessMismatch ==
  /\ gCall'.useStructure /\ gMatcherRef # <<>>
  /\ gCall'.cellWidth * gCall'.cellWidth * 2 # gMatcherRef[1].templatePixelsPerCell
  /\ Finish(gCall', CatchMatchError(<<"time">>,
               "warn: GPU matching failed, Cell pixels must match template pixels"))
  /\ UNCHANGED gGens

\* The second pass run at once on a result buffer nobody has read back
ProcessNoAwait ==
  /\ gCall'.useStructure /\ gMatcherRef # <<>>
  /\ gCall'.cellWidth * gCall'.cellWidth * 2 = gMatcherRef[1].templatePixelsPerCell
  /\ Finish(gCall', [gpuResults |-> [c \in 1..(Len(gCall'.cellData) * gCall'.textWidth) |-> 0],
                     log |-> <<"time">>, rejected |-> FALSE])
  /\ UNCHANGED gGens

\* match() submits the dispatch and processImage waits for the results
ProcessAwait ==
  /\ gCall'.useStructure /\ gMatcherRef # <<>>
  /\ gCall'.cellWidth * gCall'.cellWidth * 2 = gMatcherRef[1].templatePixelsPerCell
  /\ Len(gGens) < MaxInFlight
  /\ gGens' = Append(gGens, [gCall' EXCEPT !.matcher = gMatcherRef[1].id,
                                            !.matcherTemplates = gMatcherRef[1].templates,
                                            !.log = <<"time">>])
  /\ gIsProcessing' = TRUE
  /\ UNCHANGED <<gAsciiOutput, gLast>>

\* The debounce timeout fires: processImage() up to its await or to its end
GProcessImage ==
  /\ gTimer
  /\ gImage # NoImage
  /\ gTimer' = FALSE
  /\ \E usedFg \in SeedChoices(Len(GenColors(GenFirstPass(gImage, gTextWidth,
                     CellWidthOf(gImage.w, gTextWidth)), TRUE)), ColorQuantNum),
        usedBg \in SeedChoices(Len(GenColors(GenFirstPass(gImage, gTextWidth,
                     CellWidthOf(gImage.w, gTextWidth)), FALSE)), BgQuantNum) :
       gCall' = CallLocals(GenFirstPass(gImage, gTextWidth,
                                        CellWidthOf(gImage.w, gTextWidth)),
                           usedFg, usedBg)
  /\ (ProcessSync \/ ProcessMismatch \/ ProcessAwait)
  /\ UNCHANGED <<gImage, gTextWidth, gAlgorithm, gCharTemplates, gMatcherRef,
                 gPending, gCreated, gDestroyed, gGpuStatus, gInitLog>>
  /\ UNCHANGED <<encVars, batchVars, ssimVars, probeVars, kmeansVars, indexVars, matchVars, debounceVars, factionVars>>

\* The results of the matcher a suspended call dispatched on, which holds
\* the templates it was created with
MatcherOf(gen, templates) ==
  ShaderResults(AllGrayscale(gen.cellData), templates,
                Len(gen.charTemplates), gen.cellWidth * gen.cellWidth * 2)

\* mapAsync resolves: the await of match() returns the result buffer
GMatchResolves ==
  /\ \E i \in 1..Len(gGens) :
       /\ gGens[i].matcher \notin gDestroyed
       /\ gGens' = [j \in 1..(Len(gGens) - 1) |->
                      IF j < i THEN gGens[j] ELSE gGens[j + 1]]
       /\ Finish(gGens[i],
                 MatchReturned(gGens[i].log,
                               MatcherOf(gGens[i], gGens[i].matcherTemplates)))
  /\ UNCHANGED <<gImage, gTextWidth, gAlgorithm, gCharTemplates, gMatcherRef,
                 gPending, gCreated, gDestroyed, gGpuStatus, gInitLog, gTimer,
                 gCall>>
  /\ UNCHANGED <<encVars, batchVars, ssimVars, probeVars, kmeansVars, indexVars, matchVars, debounceVars, factionVars>>

\* mapAsync rejects (the device was lost or destroyed): the await throws
GMatchRejects ==
  /\ \E i \in 1..Len(gGens) :
       /\ gGens' = [j \in 1..(Len(gGens) - 1) |->
                      IF j < i THEN gGens[j] ELSE gGens[j + 1]]
       /\ Finish(gGens[i],
                 CatchMatchError(gGens[i].log, "warn: GPU matching failed, device lost"))
  /\ UNCHANGED <<gImage, gTextWidth, gAlgorithm, gCharTemplates, gMatcherRef,
                 gPending, gCreated, gDestroyed, gGpuStatus, gInitLog, gTimer,
                 gCall>>
  /\ UNCHANGED <<encVars, batchVars, ssimVars, probeVars, kmeansVars, indexVars, matchVars, debounceVars, factionVars>>

GenNext ==
  \/ GLoadImage
  \/ GSetTextWidth
  \/ GSetAlgorithm
  \/ GCreateSettles
  \/ GProcessImage
  \/ GMatchResolves
  \/ GMatchRejects

SpecGen == GenInit /\ [][GenNext]_vars

---------------------------------------------------------------------------
(* Claims about the encoder *)

\* A cell the generator marked transparent: the batch type's null colors, or
\* the interactive generator's transparent flag.
UpstreamTransparent(cell) == cell.transparent \/ IsNullCell(cell)

RoundTripCell(cell, row, c) ==
  /\ Len(row) >= c
  /\ row[c].ok
  /\ row[c].char = <<cell.char>>
  /\ Lookup(encOut.fg_palette, row[c].fgIndex) = cell.fgColor
  /\ Lookup(encOut.bg_palette, row[c].bgIndex) = cell.bgColor

\* C1: decoding the artifact (rows split on unescaped '|', cells read as
\* fgIndex,bgIndex,char, indices looked up in the palettes) gives back, for
\* every non-transparent cell, the character and the two colors of the input
\* cell, whatever the character and whatever the neighbouring cells.
C1_RoundTrip ==
  encPc = "decoded" =>
    \A r \in 1..Len(encGrid) : \A c \in 1..Len(encGrid[r]) :
      ~UpstreamTransparent(encGrid[r][c])
        => RoundTripCell(encGrid[r][c], encDecoded[r], c)

\* The round trip does hold for a grid without a backslash character.
C1_PlainRoundTrips ==
  (encPc = "decoded" /\ \A r \in 1..Len(encGrid) : \A c \in 1..Len(encGrid[r]) :
                          encGrid[r][c].char # "\\")
    => \A r \in 1..Len(encGrid) : \A c \in 1..Len(encGrid[r]) :
         ~UpstreamTransparent(encGrid[r][c])
           => RoundTripCell(encGrid[r][c], encDecoded[r], c)

Sentinel == <<"-", "1", ",", "-", "1", ",">>

PaletteFromOpaque(palette, fg) ==
  \A i \in 1..Len(palette) :
    \E r \in 1..Len(encGrid) : \E c \in 1..Len(encGrid[r]) :
      /\ ~UpstreamTransparent(encGrid[r][c])
      /\ palette[i] = rgbToHex(IF fg THEN encGrid[r][c].fgColor
                                ELSE encGrid[r][c].bgColor)

\* C3: every cell the generator marked transparent is encoded as the sentinel
\* -1,-1, with nothing after the second comma, no other cell is, and a
\* transparent cell adds no entry to either palette.
C3_Sentinel ==
  encPc = "encoded" =>
    /\ \A r \in 1..Len(encGrid) :
         LET parts == SplitPipe(encOut.data[r], <<>>, <<>>)
         IN Len(parts) = Len(encGrid[r]) =>
              \A c \in 1..Len(parts) :
                UpstreamTransparent(encGrid[r][c]) <=> parts[c] = Sentinel
    /\ PaletteFromOpaque(encOut.fg_palette, TRUE)
    /\ PaletteFromOpaque(encOut.bg_palette, FALSE)

---------------------------------------------------------------------------
(* Claims about the batch generator *)

\* The cells of the image at the text width of artifact e, as the generator
\* cuts them: cellWidth = ceil(w / width), cellHeight = 2 * cellWidth.
SourceCell(e, r, c) ==
  LET geo == Geometry(ImageOf(e.unit_id).w, ImageOf(e.unit_id).h, e.width)
  IN CellPixels(Resample(ImageOf(e.unit_id), geo.canvasWidth, geo.canvasHeight),
                r - 1, c - 1, geo.cellWidth, geo.cellHeight)

\* Mean alpha over the full cell below 128.
MeanAlphaBelow128(pxs) ==
  SumSeq([i \in 1..Len(pxs) |-> pxs[i].a]) < 128 * Len(pxs)

OpaqueCells(e) ==
  {rc \in (1..e.doc.height) \X (1..e.doc.width) :
     ~MeanAlphaBelow128(SourceCell(e, rc[1], rc[2]))}

StartsWithSentinel(part) == Len(part) >= 6 /\ SubSeq(part, 1, 6) = Sentinel

\* C2: in every artifact the batch generator writes, a cell whose mean alpha
\* is below 128 is encoded with the sentinel -1,-1, and adds nothing to the
\* palettes: neither palette has more entries than the image has cells that
\* are not transparent (one entry for an opaque cell next to a transparent
\* one).
C2_Transparency ==
  \A i \in 1..Len(bWritten) :
    LET e == bWritten[i]
    IN /\ \A r \in 1..e.doc.height :
            LET parts == SplitPipe(e.doc.data[r], <<>>, <<>>)
            IN \A c \in 1..e.doc.width :
                 MeanAlphaBelow128(SourceCell(e, r, c))
                   => (Len(parts) >= c /\ StartsWithSentinel(parts[c]))
       /\ Len(e.doc.fg_palette) <= Cardinality(OpaqueCells(e))
       /\ Len(e.doc.bg_palette) <= Cardinality(OpaqueCells(e))

\* C4: every artifact written has at most fgQuant foreground palette entries
\* and at most bgQuant background palette entries, and at most one background
\* entry when background colors are off.
C4_PaletteBound ==
  \A i \in 1..Len(bWritten) :
    /\ Len(bWritten[i].doc.fg_palette) <= bConfig.fgQuant
    /\ bConfig.useBgColors => Len(bWritten[i].doc.bg_palette) <= bConfig.bgQuant
    /\ ~bConfig.useBgColors => Len(bWritten[i].doc.bg_palette) <= 1

\* The colors the first pass observed, over all cells of the image.
ObservedColors(e, fg) ==
  LET all == AllColors(FirstPass(ImageOf(e.unit_id), e.width), fg)
  IN {all[i] : i \in 1..Len(all)}

\* An artifact whose image has more cells than foreground colors asked for and
\* more distinct cell colors than that, and the same for the background.
C4_Witness ==
  \E i \in 1..Len(bWritten) :
    /\ Cardinality(ObservedColors(bWritten[i], TRUE)) > bConfig.fgQuant
    /\ bConfig.useBgColors
    /\ Cardinality(ObservedColors(bWritten[i], FALSE)) > bConfig.bgQuant

\* C5: when the image has no more distinct cell colors than the count asked
\* for, the palette of the artifact has exactly as many entries as there are
\* distinct cell colors, however many cells there are.
C5_PaletteExact ==
  \A i \in 1..Len(bWritten) :
    LET e == bWritten[i]
    IN /\ Cardinality(ObservedColors(e, TRUE)) <= bConfig.fgQuant
            => Len(e.doc.fg_palette) = Cardinality(ObservedColors(e, TRUE))
       /\ (bConfig.useBgColors
             /\ Cardinality(ObservedColors(e, FALSE)) <= bConfig.bgQuant)
            => Len(e.doc.bg_palette) = Cardinality(ObservedColors(e, FALSE))

ValidQuant(p, lo, hi) == p.given => (~p.nan /\ p.v >= lo /\ p.v <= hi)

\* C9: no artifact is written for a width that is not positive, and none at
\* all when the command line carries a foreground count outside 2..32 or a
\* background count outside 1..16.
C9_StrictOptions ==
  /\ \A i \in 1..Len(bWritten) : bWritten[i].width > 0
  /\ bWritten # <<>> =>
       /\ ValidQuant(bArgs.fg, 2, 32)
       /\ ValidQuant(bArgs.bg, 1, 16)

---------------------------------------------------------------------------
(* Claims about the SSIM matchers *)

BothMatched == sCpu # <<>> /\ sGpu # <<>>

\* The best score of a matcher is above the score of every other template.
BestAbove(scores, best) ==
  \A t \in 1..Len(scores) : t # best + 1 => FGreater(scores[best + 1], scores[t])

\* No two templates tie for the best score, on the CPU or in the shader.
TopTwoDiffer == BestAbove(sScores, sCpu[1]) /\ BestAbove(sGpuScores, sGpu[1])

\* C7: for the same cell samples and the same ordered templates, on every
\* cell whose top-two SSIM scores differ the GPU matcher selects the template
\* index the CPU loop selects.
C7_SameIndex == (BothMatched /\ TopTwoDiffer) => sGpu = sCpu

---------------------------------------------------------------------------
(* Claims about the interactive generator *)

MismatchWarning ==
  "warn: GPU matching failed, Cell pixels must match template pixels"
DeviceLostWarning == "warn: GPU matching failed, device lost"

\* The call found no matcher in the ref, or its match() did not return
\* results (no console.timeEnd).
GpuFailed(last) ==
  /\ last.useStructure
  /\ ~Contains(last.log, "timeEnd")

\* Every cell of the grid that is not transparent carries the character of
\* the CPU loop over the templates of the call's cell size.
CpuChosen(grid, cellData, charTemplates) ==
  \A row \in 1..Len(cellData) : \A col \in 1..Len(cellData[row]) :
    ~cellData[row][col].isTransparent =>
      grid[row][col].char = CpuLoop(cellData[row][col].grayscale, charTemplates)

\* C8: a structure-mode generation that found no GPU matcher, or whose
\* match() rejected, still completes: it does not reject, asciiOutput is set,
\* every non-transparent cell carries the character of the CPU SSIM matcher,
\* and the failure appears on the console as a warning only.
C8_GpuFailureRecovered ==
  \A i \in 1..Len(gLast) :
    GpuFailed(gLast[i]) =>
      /\ ~gLast[i].rejected
      /\ gAsciiOutput # <<>>
      /\ \A j \in 1..Len(gAsciiOutput) :
           CpuChosen(gAsciiOutput[j],
                     GenFirstPass(gImage, gLast[i].textWidth,
                                  CellWidthOf(gImage.w, gLast[i].textWidth)),
                     CharTemplatesOf(CellWidthOf(gImage.w, gLast[i].textWidth)))
      /\ \A k \in 1..Len(gLast[i].log) :
           gLast[i].log[k] \in {"time", MismatchWarning, DeviceLostWarning}

\* A structure-mode generation whose match() rejected for a lost device has
\* ended with an output that holds a cell that is not transparent.
C8_Witness ==
  /\ gLast # <<>>
  /\ gLast[1].useStructure
  /\ Contains(gLast[1].log, DeviceLostWarning)
  /\ gAsciiOutput # <<>>
  /\ \E row \in 1..Len(gAsciiOutput[1]) :
       \E col \in 1..Len(gAsciiOutput[1][row]) :
         ~gAsciiOutput[1][row][col].transparent

\* C10: a generation in which the cell's pixel count differed from the
\* templates' pixel count of the matcher is rejected with the error; it does
\* not end with characters chosen and only a console line.
C10_MismatchSurfaced ==
  \A i \in 1..Len(gLast) :
    Contains(gLast[i].log, MismatchWarning) => gLast[i].rejected

---------------------------------------------------------------------------
(* checkWebGpuSupport *)

\* What a request of the browser's GPU interface can come to: a promise that
\* resolves with an object (info: the adapter's description, <<>> where the
\* browser has none) or with null, or that rejects with an Error (text: its
\* message) or with another value (text: String(e))
Outcome(kind, isError, text, info) ==
  [kind |-> kind, isError |-> isError, text |-> text, info |-> info]

ProbeRejections ==
  {Outcome("rejects", TRUE, "OperationError", <<>>),
   Outcome("rejects", TRUE, "", <<>>),
   Outcome("rejects", FALSE, "undefined", <<>>)}

ProbeAdapters ==
  {Outcome("object", FALSE, "", <<"vendor">>),
   Outcome("object", FALSE, "", <<>>),
   Outcome("null", FALSE, "", <<>>)} \cup ProbeRejections

ProbeDevices ==
  {Outcome("object", FALSE, "", <<>>),
   Outcome("null", FALSE, "", <<>>)} \cup ProbeRejections

\* navigator.gpu exists in secure contexts only.
ProbeEnvs ==
  {env \in [isSecureContext : BOOLEAN, gpu : BOOLEAN,
            adapter : ProbeAdapters, device : ProbeDevices] :
     env.gpu => env.isSecureContext}

ProbeInit ==
  /\ EncIdle
  /\ BatchIdle
  /\ SsimIdle
  /\ GenIdle
  /\ KMeansIdle
  /\ IndexIdle
  /\ MatchIdle
  /\ DebounceIdle
  /\ FactionIdle
  /\ pPc = "start"
  /\ pEnv \in ProbeEnvs
  /\ pDiag = NewDiagnostics

\* diagnostics.error = ...; return diagnostics
ReturnError(message) ==
  /\ pDiag' = [pDiag EXCEPT !.error = <<message>>]
  /\ pPc' = "resolved"

\* An exception that leaves the function: the promise rejects.
ProbeUncaught(e) ==
  /\ pPc' = "rejected"
  /\ UNCHANGED pDiag

\* catch (e) { diagnostics.error = `WebGPU error: ${...}` } return diagnostics
ProbeCatch(e) ==
  /\ pDiag' = [pDiag EXCEPT !.error = <<"WebGPU error: ", e.text>>]
  /\ pPc' = "resolved"

\* The call up to its first await, or to its return where navigator.gpu is
\* missing
PStart ==
  /\ pPc = "start"
  /\ IF ~pEnv.gpu
     THEN IF ~pEnv.isSecureContext
          THEN ReturnError("Not a secure context. Access via https:// or localhost (not 127.0.0.1 or IP address)")
          ELSE ReturnError("navigator.gpu not available despite secure context. Check browser flags or try a different browser.")
     ELSE /\ pDiag' = [pDiag EXCEPT !.hasNavigatorGpu = TRUE]
          /\ pPc' = "adapter"
  /\ UNCHANGED pEnv
  /\ UNCHANGED <<encVars, batchVars, ssimVars, genVars, kmeansVars, indexVars, matchVars, debounceVars, factionVars>>

\* await navigator.gpu.requestAdapter() settles.
PAdapterSettles ==
  /\ pPc = "adapter"
  /\ IF pEnv.adapter.kind = "rejects" THEN ProbeCatch(pEnv.adapter)
     ELSE IF pEnv.adapter.kind = "null"
     THEN ReturnError("No GPU adapter found. Check GPU drivers and browser flags.")
     ELSE /\ pDiag' = [pDiag EXCEPT !.hasAdapter = TRUE,
                                    !.adapterInfo = pEnv.adapter.info]
          /\ pPc' = "device"
  /\ UNCHANGED pEnv
  /\ UNCHANGED <<encVars, batchVars, ssimVars, genVars, kmeansVars, indexVars, matchVars, debounceVars, factionVars>>

\* await adapter.requestDevice() settles; device.destroy() and the return.
PDeviceSettles ==
  /\ pPc = "device"
  /\ IF pEnv.device.kind = "rejects" THEN ProbeCatch(pEnv.device)
     ELSE IF pEnv.device.kind = "null"
     THEN ReturnError("Failed to create GPU device")
     ELSE /\ pDiag' = [pDiag EXCEPT !.hasDevice = TRUE]
          /\ pPc' = "resolved"
  /\ UNCHANGED pEnv
  /\ UNCHANGED <<encVars, batchVars, ssimVars, genVars, kmeansVars, indexVars, matchVars, debounceVars, factionVars>>

ProbeNext ==
  \/ PStart
  \/ PAdapterSettles
  \/ PDeviceSettles

SpecProbe == ProbeInit /\ [][ProbeNext]_vars

---------------------------------------------------------------------------
(* The character index of brightness mode, in the code's doubles *)

\* Math.floor of a double that is not negative
FFloor(x) ==
  IF x.e >= 0 THEN NatToInt(NatShl(x.m, x.e)) ELSE NatToInt(NatShr(x.m, -x.e))

\* totalBrightness / pixelCount: the sum of getBrightness over the cell's
\* pixels in the order of the loops, divided by their number
MeanBrightness(pxs) ==
  FDiv(F64, FSum(F64, [i \in 1..Len(pxs) |-> getBrightness(pxs[i][1], pxs[i][2], pxs[i][3])], FZero),
       FInt(Len(pxs)))

\* An index that rounds to the nearest entry of the ramp.
CharIdxRounded(brightness, len) ==
  FFloor(FAdd(F64, FMul(F64, FDiv(F64, brightness, FInt(255)), FInt(len - 1)),
              FLit(F64, 1, 2)))

\* Math.floor((brightness / 255) * (chars.length - 1))
CharIdxOf(brightness, len) ==
  FFloor(FMul(F64, FDiv(F64, brightness, FInt(255)), FInt(len - 1)))

\* The lengths of CHAR_SETS: binary, blocks, simple, standard, detailed
RampLengths == {2, 5, 6, 10, 70}

\* Opaque pixels as r, g, b
IndexPixels ==
  {<<0, 0, 0>>, <<51, 51, 51>>, <<85, 85, 85>>, <<153, 153, 153>>,
   <<255, 0, 0>>, <<254, 255, 255>>, <<255, 255, 254>>, <<255, 255, 255>>}

MaxIndexPixels == 2

\* Two black pixels and a gray one: the mean, 85 / 3, is not a double
ThirdsCell == <<<<0, 0, 0>>, <<0, 0, 0>>, <<85, 85, 85>>>>

IndexCells == UNION {[1..n -> IndexPixels] : n \in 1..MaxIndexPixels} \cup {ThirdsCell}

IndexInit ==
  /\ EncIdle
  /\ BatchIdle
  /\ SsimIdle
  /\ GenIdle
  /\ ProbeIdle
  /\ KMeansIdle
  /\ MatchIdle
  /\ DebounceIdle
  /\ FactionIdle
  /\ xPc = "input"
  /\ xCells \in [1..2 -> IndexCells]
  /\ xLen \in RampLengths
  /\ xIdx = <<>>

\* The index of the two cells
XIndex ==
  /\ xPc = "input"
  /\ xIdx' = [c \in 1..2 |-> CharIdxOf(MeanBrightness(xCells[c]), xLen)]
  /\ xPc' = "done"
  /\ UNCHANGED <<xCells, xLen>>
  /\ UNCHANGED <<encVars, batchVars, ssimVars, genVars, probeVars, kmeansVars, matchVars, debounceVars, factionVars>>

IndexNext == XIndex

SpecIndex == IndexInit /\ [][IndexNext]_vars

---------------------------------------------------------------------------
(* kMeansCluster of the batch generator, one loop iteration per step *)

MaxColors == 4

\* The length of the long list of observations
LongList == 120

\* Observations of the short lists: two of them one apart on either side of
\* a third, and two far away
KMeansColors == {Rgb(0, 0, 0), Rgb(1, 0, 0), Rgb(2, 0, 0), Rgb(255, 255, 255)}

\* The calls: every short list with every k up to its length, and the long
\* list of grays with k two below its length
KMeansCalls ==
  {<<colors, k>> \in (UNION {[1..n -> KMeansColors] : n \in 1..MaxColors}) \X (1..MaxColors) :
     k <= Len(colors)}
  \cup {<<[i \in 1..LongList |-> Rgb(i, i, i)], LongList - 2>>}

KMeansInit ==
  /\ EncIdle
  /\ BatchIdle
  /\ SsimIdle
  /\ GenIdle
  /\ ProbeIdle
  /\ IndexIdle
  /\ MatchIdle
  /\ DebounceIdle
  /\ FactionIdle
  /\ kPc = "start"
  /\ \E call \in KMeansCalls :
       /\ kColors = call[1]
       /\ kK = call[2]
  /\ kSeedVal = 0
  /\ kUsed = <<>>
  /\ kCentroids = <<>>
  /\ kIter = 0

\* The two early returns, or seed = colors.length
KStart ==
  /\ kPc = "start"
  /\ IF Len(kColors) = 0
     THEN /\ kPc' = "returned"
          /\ UNCHANGED <<kCentroids, kSeedVal>>
     ELSE IF Len(kColors) <= kK
     THEN /\ kPc' = "returned"
          /\ kCentroids' = kColors
          /\ UNCHANGED kSeedVal
     ELSE /\ kPc' = "seeding"
          /\ kSeedVal' = InitialSeed(kColors, kSeedVal)
          /\ UNCHANGED kCentroids
  /\ UNCHANGED <<kColors, kK, kUsed, kIter>>
  /\ UNCHANGED <<encVars, batchVars, ssimVars, genVars, probeVars, indexVars, matchVars, debounceVars, factionVars>>

\* while (centroids.length < k && centroids.length < colors.length)
Seeding == Len(kCentroids) < kK /\ Len(kCentroids) < Len(kColors)

\* if (!used.has(idx)) { used.add(idx); centroids.push({ ...colors[idx] }) }
Drawn(idx) ==
  IF Contains(kUsed, idx) THEN UNCHANGED <<kUsed, kCentroids>>
  ELSE /\ kUsed' = Append(kUsed, idx)
       /\ kCentroids' = Append(kCentroids,
                               IF idx < Len(kColors) THEN kColors[idx + 1]
                               ELSE UndefinedColor)

\* One iteration of the seeding loop
KDraw ==
  /\ kPc = "seeding"
  /\ Seeding
  /\ kSeedVal' = NextSeed(kSeedVal)
  /\ Drawn(SeedIndex(NextSeed(kSeedVal), Len(kColors)))
  /\ UNCHANGED <<kPc, kColors, kK, kIter>>
  /\ UNCHANGED <<encVars, batchVars, ssimVars, genVars, probeVars, indexVars, matchVars, debounceVars, factionVars>>

\* The seeding loop ends: for (let iter = 0; ...
KSeeded ==
  /\ kPc = "seeding"
  /\ ~Seeding
  /\ kPc' = "refining"
  /\ kIter' = 0
  /\ UNCHANGED <<kColors, kK, kSeedVal, kUsed, kCentroids>>
  /\ UNCHANGED <<encVars, batchVars, ssimVars, genVars, probeVars, indexVars, matchVars, debounceVars, factionVars>>

\* A round that leaves the centroids where they are.
RoundSkipped(colors, centroids) == centroids

\* One round of the for loop: the clusters, then the centroids
Round(colors, centroids) == UpdateCentroids(colors, centroids)

KRound ==
  /\ kPc = "refining"
  /\ kIter < Iterations
  /\ kCentroids' = Round(kColors, kCentroids)
  /\ kIter' = kIter + 1
  /\ UNCHANGED <<kPc, kColors, kK, kSeedVal, kUsed>>
  /\ UNCHANGED <<encVars, batchVars, ssimVars, genVars, probeVars, indexVars, matchVars, debounceVars, factionVars>>

\* iter < iterations fails: return centroids
KReturn ==
  /\ kPc = "refining"
  /\ kIter >= Iterations
  /\ kPc' = "returned"
  /\ UNCHANGED <<kColors, kK, kSeedVal, kUsed, kCentroids, kIter>>
  /\ UNCHANGED <<encVars, batchVars, ssimVars, genVars, probeVars, indexVars, matchVars, debounceVars, factionVars>>

KMeansNext ==
  \/ KStart
  \/ KDraw
  \/ KSeeded
  \/ KRound
  \/ KReturn

SpecKMeans == KMeansInit /\ [][KMeansNext]_vars

\* ENABLED <<KDraw>>_vars: the loop goes on and the draw changes seedVal or
\* takes a new index
DrawChanges ==
  /\ kPc = "seeding"
  /\ Seeding
  /\ \/ NextSeed(kSeedVal) # kSeedVal
     \/ ~Contains(kUsed, SeedIndex(NextSeed(kSeedVal), Len(kColors)))

\* The call runs: no loop stops between two of its iterations.  For KDraw
\* and KRound weak fairness is written out, with their guards for ENABLED.
SpecKMeansRuns ==
  /\ SpecKMeans
  /\ WF_vars(KStart)
  /\ ([]<>~DrawChanges \/ []<><<KDraw>>_vars)
  /\ WF_vars(KSeeded)
  /\ ([]<>~(kPc = "refining" /\ kIter < Iterations) \/ []<><<KRound>>_vars)
  /\ WF_vars(KReturn)

---------------------------------------------------------------------------
(* Claims about the batch run: examples, artifacts, failures, geometry *)

\* The 1 x 1 opaque red source of Example 1
RedPixelImage == CHOOSE img \in UniformImages : img.w = 1 /\ img.h = 1

\* The artifacts written for Example 1: the red pixel at text width 1
Example1Artifacts ==
  {i \in 1..Len(bWritten) :
     bImages[1] = RedPixelImage /\ bWritten[i].width = 1}

HexRed == <<"#", "F", "F", "0", "0", "0", "0">>

\* The one cell of Example 1 after the first pass
Example1Cell == FirstPass(RedPixelImage, 1)[1][1]

\* C11 as stated: in Example 1 the cell has brightness 76 (76.245 before
\* rounding), index 2, the artifact shows the character '.', and the
\* foreground palette is #FF0000 alone.
C11_Example1AsStated ==
  \A i \in Example1Artifacts :
    /\ Example1Cell.brightness.sum1000 = 76245 * Example1Cell.brightness.count
    /\ CharIdx(Example1Cell.brightness, Len(CharSetStandard)) = 2
    /\ bWritten[i].doc.data = <<<<"0", ",", "0", ",", ".">>>>
    /\ bWritten[i].doc.fg_palette = <<[hex |-> TRUE, text |-> HexRed, raw |-> CssNull]>>

\* C11 amended: in Example 1 the cell has brightness 76.245, index 2, the
\* artifact shows the ramp's character at index 2 counted from 0, which is
\* ':', and the foreground palette is #FF0000 alone.
C11_Example1 ==
  \A i \in Example1Artifacts :
    /\ Example1Cell.brightness.sum1000 = 76245 * Example1Cell.brightness.count
    /\ CharIdx(Example1Cell.brightness, Len(CharSetStandard)) = 2
    /\ bWritten[i].doc.data = <<<<"0", ",", "0", ",", ":">>>>
    /\ bWritten[i].doc.fg_palette = <<[hex |-> TRUE, text |-> HexRed, raw |-> CssNull]>>

\* An artifact of Example 1 has been written.
C11_Witness == Example1Artifacts # {}

\* The number of cells of a data row: one more than its unescaped pipes
RowCells(row) ==
  1 + Cardinality({k \in 1..Len(row) :
                     row[k] = "|" /\ (k = 1 \/ row[k - 1] # "\\")})

\* The iterations of the inner loop that have ended
IterationsDone ==
  IF bPc = "start" THEN 0
  ELSE IF bIi > Len(bImages) THEN Len(bImages) * Len(bConfig.widths)
  ELSE (bIi - 1) * Len(bConfig.widths) + (bWi - 1)

Attempts(unitId, width) ==
  Cardinality({i \in 1..Len(bWritten) :
                 bWritten[i].unit_id = unitId /\ bWritten[i].width = width})
  + Cardinality({i \in 1..Len(bErrors) :
                   bErrors[i].unit_id = unitId /\ bErrors[i].width = width})

\* C13: a failed iteration is recorded and the run goes on: the counters
\* count exactly the documents written, and when main ends every unit has
\* been attempted at every width of the list, whatever failed before.
C13_ErrorIsolation ==
  /\ bTotalFiles = Len(bWritten)
  /\ bTotalBytes = SumSeq([i \in 1..Len(bWritten) |-> JsonLength(bWritten[i].doc)])
  /\ Len(bWritten) + Len(bErrors) = IterationsDone
  /\ bPc = "done" =>
       \A u \in 1..Len(bImages) : \A w \in 1..Len(bConfig.widths) :
         Attempts(bImages[u].unitId, bConfig.widths[w])
           = Cardinality({x \in 1..Len(bConfig.widths) :
                            bConfig.widths[x] = bConfig.widths[w]})

\* The run has ended; the first unit failed to decode, a write failed, and a
\* later iteration still wrote its document.
C13_Witness ==
  /\ bPc = "done"
  /\ \E i \in 1..Len(bErrors) : bErrors[i].err = "loadImage"
  /\ \E i \in 1..Len(bErrors) : bErrors[i].err = "writeFile"
  /\ \E i \in 1..Len(bWritten) : bWritten[i].unit_id = "b"

\* The directories whose images do not fill their canvas, and those of two
\* units
GeometryDirectories == {<<img>> : img \in UniformImages} \cup BatchPairs

GeometryImage == [w |-> 2, h |-> 4, px |-> [y \in 1..4 |-> <<PxW, PxT>>]]

\* Both generators, for the claims on what they share
GeometryInit == (BatchInit /\ bImages \in GeometryDirectories) \/ GenInit

\* A behaviour is a batch run or a session of the interactive generator.
\* Of the interactive generator's images, the one with a transparent column
\* is loaded.
GeometryNext ==
  \/ bPc # "idle" /\ BatchNext
  \/ bPc = "idle" /\ GenNext /\ gImage' \in {NoImage, GeometryImage}

SpecGeometry == GeometryInit /\ [][GeometryNext]_vars

\* The grid the claim gives a w x h image at text width W: rows of W cells of
\* cellWidth * cellHeight pixels each
GridAsClaimed(cellData, w, h, W, pixelsOf(_)) ==
  LET cellWidth == (w + W - 1) \div W
      cellHeight == 2 * cellWidth
      rows == (h + cellHeight - 1) \div cellHeight
  IN /\ Len(cellData) = rows
     /\ \A r \in 1..Len(cellData) :
          /\ Len(cellData[r]) = W
          /\ \A c \in 1..W : pixelsOf(cellData[r][c]) = cellWidth * cellHeight

BatchPixelsOf(cd) == cd.brightness.count

GenPixelsOf(cd) == Len(cd.grayscale)

\* C15: for a w x h image at text width W both generators work on rows =
\* ceil(h / cellHeight) rows of W cells, cellWidth = ceil(w / W), cellHeight =
\* 2 * cellWidth, and every cell holds cellWidth * cellHeight canvas pixels;
\* the artifact has rows data rows of W cells.
C15_GridGeometry ==
  /\ \A i \in 1..Len(bWritten) :
       LET e == bWritten[i]
           img == ImageOf(e.unit_id)
       IN /\ GridAsClaimed(FirstPass(img, e.width), img.w, img.h, e.width, BatchPixelsOf)
          /\ Len(e.doc.data) = Len(FirstPass(img, e.width))
          /\ \A r \in 1..Len(e.doc.data) : RowCells(e.doc.data[r]) = e.width
  /\ gCall # NoCall =>
       /\ GridAsClaimed(gCall.cellData, gImage.w, gImage.h, gCall.textWidth, GenPixelsOf)
       /\ gCall.cellWidth = (gImage.w + gCall.textWidth - 1) \div gCall.textWidth

\* An artifact of several rows of an image that fills its canvas in neither
\* direction
C15_Witness ==
  \E i \in 1..Len(bWritten) :
    LET e == bWritten[i]
        img == ImageOf(e.unit_id)
    IN /\ img.w % e.width # 0
       /\ img.h % (2 * ((img.w + e.width - 1) \div e.width)) # 0
       /\ e.doc.height > 1

\* C14: the probe never rejects and cannot stop before it resolves;
\* hasDevice implies hasAdapter, which implies hasNavigatorGpu; a description
\* of the adapter is there only with hasAdapter; and when it has resolved, a
\* failure reason is there exactly when hasDevice is false.
C14_ProbeResolves ==
  /\ pPc # "rejected"
  /\ pPc \in {"start", "adapter", "device"} => ENABLED ProbeNext
  /\ pDiag.hasDevice => pDiag.hasAdapter
  /\ pDiag.hasAdapter => pDiag.hasNavigatorGpu
  /\ pDiag.adapterInfo # <<>> => pDiag.hasAdapter
  /\ pPc = "resolved" => (pDiag.error # <<>> <=> ~pDiag.hasDevice)

\* The probe resolved after requestDevice rejected: an adapter with its
\* description, no device, and the reason.
C14_Witness ==
  /\ pPc = "resolved"
  /\ pEnv.device.kind = "rejects"
  /\ pDiag.hasAdapter /\ pDiag.adapterInfo # <<>>
  /\ ~pDiag.hasDevice
  /\ pDiag.error # <<>>

\* What a first match of the cell against the templates selects
FreshMatch(cell, templates) ==
  CpuBest([t \in 1..Len(templates) |->
             calculateSSIM(Grayscale(cell), Grayscale(templates[t]))],
          1, FNeg(FInt(1)), -1)

ScaledIdx(b, len, num, den) ==
  IF b.e >= 0
  THEN NatToInt(NatDivMod(NatMul(NatMulSmall(NatShl(b.m, b.e), len - 1, 0), num),
                          NatMul(<<255>>, den))[1])
  ELSE NatToInt(NatDivMod(NatMul(NatMulSmall(b.m, len - 1, 0), num),
                          NatMul(NatShl(<<255>>, -b.e), den))[1])

\* floor(b / 255 * (len - 1)) without rounding
ExactIdx(b, len) == ScaledIdx(b, len, <<1>>, <<1>>)

\* 2^51: the division and the multiplication, each rounded to a double, move
\* the quotient by less than one part in 2^51
Ulps == NatShl(<<1>>, 51)

\* a <= b for doubles
FLeq(a, b) == ~FGreater(a, b)

\* a = b for doubles
FSame(a, b) == ~FGreater(a, b) /\ ~FGreater(b, a)

SeededAsClaimed ==
  /\ Len(kUsed) = kK
  /\ Len(kCentroids) = kK
  /\ \A i \in 1..Len(kUsed) :
       /\ kUsed[i] \in 0..(Len(kColors) - 1)
       /\ kCentroids[i] = kColors[kUsed[i] + 1]
       /\ \A j \in 1..Len(kUsed) : kUsed[i] = kUsed[j] => i = j

\* C19: for n > k >= 1 the seeding loop of the batch kMeansCluster ends
\* after finitely many draws, with k centroids copied from the observations
\* at k distinct indices.
C19_SeedingTerminates ==
  /\ <>(kPc \in {"refining", "returned"})
  /\ []((kPc = "refining" /\ kIter = 0) => SeededAsClaimed)

\* The first of the centroids nearest to the observation is centroid i.
NearerTo(color, centroids, i) ==
  /\ \A j \in 1..(i - 1) : SqDist(color, centroids[j]) > SqDist(color, centroids[i])
  /\ \A j \in (i + 1)..Len(centroids) : SqDist(color, centroids[j]) >= SqDist(color, centroids[i])

Assigned(colors, centroids, i) ==
  {c \in 1..Len(colors) : NearerTo(colors[c], centroids, i)}

RECURSIVE SumOver(_, _)
SumOver(f, S) ==
  IF S = {} THEN 0 ELSE LET x == CHOOSE y \in S : TRUE IN f[x] + SumOver(f, S \ {x})

\* The integer nearest to sum / n, the upper one of two
NearestInteger(sum, n) == CHOOSE r \in 0..255 : 2 * n * r - n <= 2 * sum /\ 2 * sum < 2 * n * r + n

RoundAsClaimed(colors, before, after) ==
  /\ Len(after) = Len(before)
  /\ \A i \in 1..Len(before) :
       LET A == Assigned(colors, before, i)
       IN IF A = {} THEN after[i] = before[i]
          ELSE /\ after[i].r = NearestInteger(SumOver([c \in 1..Len(colors) |-> colors[c].r], A), Cardinality(A))
               /\ after[i].g = NearestInteger(SumOver([c \in 1..Len(colors) |-> colors[c].g], A), Cardinality(A))
               /\ after[i].b = NearestInteger(SumOver([c \in 1..Len(colors) |-> colors[c].b], A), Cardinality(A))

IsFirstMax(scores, t) ==
  /\ \A u \in 1..Len(scores) : ~FGreater(scores[u], scores[t])
  /\ \A u \in 1..(t - 1) : FGreater(scores[t], scores[u])

\* The scores of a cell in the call that ended last: the shader's where the
\* results of match() came back, calculateSSIM's otherwise
ScoresOf(last, cellData, templates, row, col) ==
  IF Contains(last.log, "timeEnd")
  THEN ShaderScores(ShaderParams(Len(cellData) * last.textWidth, Len(templates),
                                 Len(templates[1].data)),
                    AllGrayscale(cellData), TemplateDataOf(templates),
                    (row - 1) * last.textWidth + col - 1)
  ELSE [t \in 1..Len(templates) |->
          calculateSSIM(cellData[row][col].grayscale, templates[t].data)]

\* A cell of the output shows the character of the first template of maximal
\* score.
ShowsFirstMax(cell, scores, templates) ==
  \E t \in 1..Len(templates) :
    /\ cell.char = templates[t].char
    /\ templates[t].char = STRUCTURE_CHARS[t]
    /\ IsFirstMax(scores, t)

\* C20: in structure mode a cell that is not transparent shows the character
\* of the template with the greatest SSIM against the cell, the first one in
\* the order of STRUCTURE_CHARS if several have it; a transparent cell is
\* blank and marked transparent whatever the matcher returned for it.
C20_StructureSelection ==
  \A i \in 1..Len(gLast) :
    LET last == gLast[i]
        cellData == GenFirstPass(gImage, last.textWidth, CellWidthOf(gImage.w, last.textWidth))
        templates == CharTemplatesOf(CellWidthOf(gImage.w, last.textWidth))
    IN (last.useStructure /\ ~last.rejected /\ Len(templates) > 0) =>
         \A row \in 1..Len(cellData) : \A col \in 1..last.textWidth :
           IF cellData[row][col].isTransparent
           THEN /\ gAsciiOutput[1][row][col].char = " "
                /\ gAsciiOutput[1][row][col].transparent
           ELSE ShowsFirstMax(gAsciiOutput[1][row][col],
                              ScoresOf(last, cellData, templates, row, col), templates)

\* The results of match() came back for an image with a transparent column
\* and the output is there
TransparentBypassed ==
  /\ gLast # <<>>
  /\ gLast[1].useStructure
  /\ Contains(gLast[1].log, "timeEnd")
  /\ gAsciiOutput # <<>>
  /\ \E row \in 1..Len(gAsciiOutput[1]) : \E col \in 1..gLast[1].textWidth :
       gAsciiOutput[1][row][col].transparent
  /\ \E row \in 1..Len(gAsciiOutput[1]) : \E col \in 1..gLast[1].textWidth :
       gAsciiOutput[1][row][col].char = STRUCTURE_CHARS[2]

\* The results of match() came back for a cell on which the two templates
\* score the same, and the output shows the first one
C20_Witness ==
  /\ gLast # <<>>
  /\ gLast[1].useStructure
  /\ ~gLast[1].rejected
  /\ Contains(gLast[1].log, "timeEnd")
  /\ gAsciiOutput # <<>>
  /\ LET cellData == GenFirstPass(gImage, gLast[1].textWidth, CellWidthOf(gImage.w, gLast[1].textWidth))
         templates == CharTemplatesOf(CellWidthOf(gImage.w, gLast[1].textWidth))
     IN /\ Len(templates) = 2
        /\ ~cellData[1][1].isTransparent
        /\ FSame(ScoresOf(gLast[1], cellData, templates, 1, 1)[1],
                 ScoresOf(gLast[1], cellData, templates, 1, 1)[2])
        /\ gAsciiOutput[1][1][1].char = STRUCTURE_CHARS[1]

\* The message a call logs when its await of match() has settled
MatchSettled(log) ==
  /\ Len(log) = 2
  /\ log[2] \in {"timeEnd", "warn: GPU matching failed, device lost",
                 "warn: GPU matching failed, Cell pixels must match template pixels"}

\* C23: a generation that called match() publishes its result only in a step
\* in which its await has settled, by the results or by an error; if by the
\* results, the call was suspended until then and leaves the suspended calls
\* in that step.
C23_AwaitBeforeSecondPass ==
  [][(gLast' # gLast /\ gLast' # <<>> /\ gLast'[1].log # <<>>) =>
       /\ gLast'[1].log[1] = "time"
       /\ MatchSettled(gLast'[1].log)
       /\ gLast'[1].log[2] = "timeEnd" =>
            /\ Len(gGens') = Len(gGens) - 1
            /\ \E i \in 1..Len(gGens) :
                 /\ gGens[i].log = <<"time">>
                 /\ gGens[i].textWidth = gLast'[1].textWidth]_vars

\* A call was suspended, the results came back and its output is shown
C23_Witness ==
  /\ gLast # <<>>
  /\ gLast[1].log = <<"time", "timeEnd">>
  /\ gAsciiOutput # <<>>
  /\ ~gIsProcessing
  /\ gGens = <<>>

\* The templates a call compares its cells with have the cells' size
SizedForCall(call) ==
  /\ call.charTemplates = CharTemplatesOf(call.cellWidth)
  /\ \A t \in 1..Len(call.charTemplates) :
       /\ Len(call.charTemplates[t].data) = call.cellWidth * (call.cellWidth * 2)
       /\ \A r \in 1..Len(call.cellData) : \A c \in 1..Len(call.cellData[r]) :
            Len(call.charTemplates[t].data) = Len(call.cellData[r][c].grayscale)

\* C24: the templates are those of the current cell size; in a structure-mode
\* call the templates of the CPU loop have the length of the cell vectors and
\* were rendered at the call's cellWidth x cellHeight, and so were those of
\* the matcher a call is suspended on.
C24_TemplateCache ==
  /\ gCharTemplates = CharTemplatesOf(CellWidthOf(gImage.w, gTextWidth))
  /\ (gCall # NoCall /\ gCall.useStructure) => SizedForCall(gCall)
  /\ \A i \in 1..Len(gGens) :
       /\ SizedForCall(gGens[i])
       /\ gGens[i].matcherTemplates = TemplateDataOf(gGens[i].charTemplates)

\* After a change of the text width, hence of the cell size, a structure-mode
\* call is suspended on a matcher
C24_Witness ==
  /\ gCreated = 2
  /\ gGens # <<>>
  /\ gGens[1].useStructure
  /\ gGens[1].textWidth = gTextWidth
  /\ gGens[1].matcher = 2

\* C26: the matcher the ref holds, if any, was built from the current
\* templates.
C26_MatcherCurrent ==
  gMatcherRef # <<>> =>
    /\ gMatcherRef[1].templates = TemplateDataOf(gCharTemplates)
    /\ gMatcherRef[1].id \notin gDestroyed

\* C27: once no call is suspended and no timer is pending, the output shown
\* is that of a generation with the current text width and algorithm.
C27_LatestWins ==
  (gGens = <<>> /\ ~gTimer /\ gLast # <<>> /\ gAsciiOutput # <<>>) =>
    /\ gLast[1].textWidth = gTextWidth
    /\ gLast[1].useStructure = (gAlgorithm = "structure")

\* Two hexadecimal digits in upper case
Hex2(n) == <<HexChars[(n \div 16) + 1], HexChars[(n % 16) + 1]>>

\* The palette entry of a color: #RRGGBB in upper case for rgb(r, g, b), the
\* string itself for any other
KeyAsClaimed(css) ==
  IF css.tag = "rgb"
  THEN [hex |-> TRUE, text |-> <<"#">> \o Hex2(css.r) \o Hex2(css.g) \o Hex2(css.b),
        raw |-> CssNull]
  ELSE [hex |-> FALSE, text |-> <<>>, raw |-> css]

\* The cells the encoder does not skip, in row-major order, with one of
\* their colors
ColorsInOrder(grid, fg) ==
  LET cells == SelectSeq(Flatten(grid), LAMBDA cell : ~IsNullCell(cell))
  IN [i \in 1..Len(cells) |-> IF fg THEN cells[i].fgColor ELSE cells[i].bgColor]

\* No entry twice, every entry the key of a cell, and an entry stands before
\* another if its first cell comes before the other's first cell
PaletteAsClaimed(palette, colors) ==
  /\ \A i, j \in 1..Len(palette) : palette[i] = palette[j] => i = j
  /\ \A c \in 1..Len(colors) : \E i \in 1..Len(palette) : palette[i] = KeyAsClaimed(colors[c])
  /\ \A i \in 1..Len(palette) :
       \E c \in 1..Len(colors) :
         /\ palette[i] = KeyAsClaimed(colors[c])
         /\ \A d \in 1..(c - 1) : palette[i] # KeyAsClaimed(colors[d])
         /\ \A j \in 1..(i - 1) :
              \E d \in 1..(c - 1) : palette[j] = KeyAsClaimed(colors[d])

\* The text of a row in which cell c carries the indices f[c] and b[c]
RowWith(row, f, b) ==
  JoinPipe([c \in 1..Len(row) |->
     IF IsNullCell(row[c]) THEN <<"-", "1", ",", "-", "1", ",", " ">>
     ELSE DecStr(f[c]) \o <<",">> \o DecStr(b[c]) \o <<",">>
          \o (IF row[c].char = "|" THEN <<"\\", "|">> ELSE <<row[c].char>>)])

\* C25: the palettes have no entry twice and list the colors in the order of
\* their first cell, row by row; every cell the encoder does not skip is
\* written with indices inside the palettes, and the entries at these indices
\* are the cell's colors as upper-case #RRGGBB.
C25_PaletteIndexValid ==
  encPc \in {"encoded", "decoded"} =>
    /\ PaletteAsClaimed(encOut.fg_palette, ColorsInOrder(encGrid, TRUE))
    /\ PaletteAsClaimed(encOut.bg_palette, ColorsInOrder(encGrid, FALSE))
    /\ \A r \in 1..Len(encGrid) :
         \E f \in [1..Len(encGrid[r]) -> 0..Max(Len(encOut.fg_palette) - 1, 0)] :
         \E b \in [1..Len(encGrid[r]) -> 0..Max(Len(encOut.bg_palette) - 1, 0)] :
           /\ encOut.data[r] = RowWith(encGrid[r], f, b)
           /\ \A c \in 1..Len(encGrid[r]) :
                ~IsNullCell(encGrid[r][c]) =>
                  /\ f[c] < Len(encOut.fg_palette)
                  /\ b[c] < Len(encOut.bg_palette)
                  /\ encOut.fg_palette[f[c] + 1] = KeyAsClaimed(encGrid[r][c].fgColor)
                  /\ encOut.bg_palette[b[c] + 1] = KeyAsClaimed(encGrid[r][c].bgColor)

\* A row of two cells with two foreground and two background colors: the
\* second cell carries the indices 1 and 1
C25_Witness ==
  /\ encPc = "encoded"
  /\ Len(encGrid) = 1
  /\ Len(encGrid[1]) = 2
  /\ encOut.fg_palette = <<KeyAsClaimed(CssRgb(255, 0, 0)), KeyAsClaimed(CssRgb(255, 255, 255))>>
  /\ encOut.bg_palette = <<KeyAsClaimed(CssRgb(0, 0, 0)), KeyAsClaimed(CssRgb(171, 0, 9))>>
  /\ encOut.bg_palette[2].text = <<"#", "A", "B", "0", "0", "0", "9">>
  /\ encOut.data[1] = <<"0", ",", "0", ",", "a", "|", "1", ",", "1", ",", "a">>

\* C28: no state of the generator is 0x7fffffff, the one value for which
\* seedVal / 0x7fffffff is 1; every index drawn, new or not, lies in 0..n-1,
\* and every centroid seeded is the observation at its index.
C28_SeedIndexInRange ==
  /\ kSeedVal # 2147483647
  /\ kPc = "seeding" =>
       /\ NextSeed(kSeedVal) \in 0..2147483646
       /\ SeedIndex(NextSeed(kSeedVal), Len(kColors)) \in 0..(Len(kColors) - 1)
  /\ kPc \in {"seeding", "refining"} /\ kIter = 0 =>
       \A i \in 1..Len(kUsed) :
         /\ kUsed[i] \in 0..(Len(kColors) - 1)
         /\ kCentroids[i] = kColors[kUsed[i] + 1]
         /\ kCentroids[i] # UndefinedColor

\* In the list of 120 the first and the last index have been drawn, and the
\* generator has passed the upper half of its range
C28_Witness ==
  /\ kPc = "seeding"
  /\ Len(kColors) = LongList
  /\ Contains(kUsed, 0)
  /\ Contains(kUsed, LongList - 1)
  /\ kSeedVal > 2147483647 - 20000000

----------------------------------------------------------------------------
(* One GpuSsimMatcher after createGpuSsimMatcher returned it, the calls of  *)
(* match() on it, and the queue of its device. A call runs from its start   *)
(* to `await stagingBuffer.mapAsync` in one piece; what it handed to        *)
(* device.queue is executed later, in the order of submission.              *)

MaxMatchCalls == 2

\* templatePixelsPerCell of the matcher
MatchCellPixels == 2

MatchTemplateSets ==
  {<<<<0, 255>>, <<255, 0>>>>, <<<<255, 255>>, <<0, 255>>>>}

\* The cells of a call, one raster each
MatchBatches ==
  {<<<<0, 255>>>>, <<<<255, 128>>>>, <<<<0, 255>>, <<255, 128>>>>,
   <<<<255, 128>>, <<0, 255>>>>}

\* allGrayscale of the caller: a Float32Array
MatchCells(batch) == ToFloat32Array(Grayscale(Flatten(batch)))

\* A buffer of createBuffer before it is written: zeros
ZeroParams ==
  [numCells |-> 0, numTemplates |-> 0, pixelsPerCell |-> 0,
   k1 |-> FZero, k2 |-> FZero, L |-> FZero]

ZeroBuffer(size) == [i \in 1..size |-> 0]

MatchInit ==
  /\ EncIdle
  /\ ProbeIdle
  /\ KMeansIdle
  /\ IndexIdle
  /\ BatchIdle
  /\ SsimIdle
  /\ GenIdle
  /\ DebounceIdle
  /\ FactionIdle
  /\ mPc = "ready"
  /\ \E rasters \in MatchTemplateSets : mTemplates = TemplateBuffer(rasters)
  /\ mTemplateWrites = 1
  /\ mParams = ZeroParams
  /\ mQueue = <<>>
  /\ mCalls = <<>>

\* What a call hands to the queue, in order, but with the parameters written
\* after the commands that read them
QueueOpsParamsLast(c, cells, params) ==
  <<[op |-> "writeCells", call |-> c, data |-> cells],
    [op |-> "dispatch", call |-> c, data |-> <<>>],
    [op |-> "copy", call |-> c, data |-> <<>>],
    [op |-> "writeParams", call |-> c, data |-> params]>>

\* What a call hands to the queue, in order: writeBuffer(cellBuffer),
\* writeBuffer(paramsBuffer), submit of the compute pass and the copy
QueueOps(c, cells, params) ==
  <<[op |-> "writeCells", call |-> c, data |-> cells],
    [op |-> "writeParams", call |-> c, data |-> params],
    [op |-> "dispatch", call |-> c, data |-> <<>>],
    [op |-> "copy", call |-> c, data |-> <<>>]>>

\* The result buffer after the compute pass: invocation cellIdx returns at
\* once if cellIdx >= params.numCells, and a write past the end of the
\* buffer is dropped
Dispatch(params, cells, templates, size) ==
  [c \in 1..size |->
     IF c - 1 < params.numCells
     THEN ShaderBest(ShaderScores(params, cells, templates, c - 1), 0, FNeg(FInt(1)), 0)
     ELSE 0]

AwaitingCalls == {c \in 1..Len(mCalls) : mCalls[c].pc = "awaiting"}

\* match(cells, cellPixels) up to its await
MMatch ==
  /\ mPc \in {"ready", "lost"}
  /\ Len(mCalls) < MaxMatchCalls
  /\ \E batch \in MatchBatches : \E cellPixels \in {MatchCellPixels, 1} :
       LET c == Len(mCalls) + 1
           cells == MatchCells(batch)
           numCells == Len(cells) \div cellPixels
           call == [pc |-> "awaiting", cells |-> cells, cellPixels |-> cellPixels,
                    numCells |-> numCells, during |-> AwaitingCalls,
                    cellBuf |-> ZeroBuffer(Len(cells)),
                    resultBuf |-> ZeroBuffer(numCells),
                    stagingBuf |-> ZeroBuffer(numCells),
                    live |-> {"cell", "result", "staging"}, result |-> <<>>]
       IN IF cellPixels # MatchCellPixels
          THEN /\ mCalls' = Append(mCalls, [call EXCEPT !.pc = "threw", !.live = {},
                                             !.cellBuf = <<>>, !.resultBuf = <<>>,
                                             !.stagingBuf = <<>>])
               /\ UNCHANGED mQueue
          ELSE /\ mCalls' = Append(mCalls, call)
               /\ mQueue' = mQueue \o QueueOps(c, cells,
                               ShaderParams(numCells, Len(mTemplates) \div MatchCellPixels,
                                            cellPixels))
  /\ UNCHANGED <<mPc, mTemplates, mTemplateWrites, mParams>>
  /\ UNCHANGED <<encVars, batchVars, ssimVars, genVars, probeVars, kmeansVars, indexVars, debounceVars, factionVars>>

\* The device executes the operation at the head of its queue
MGpuStep ==
  /\ mPc = "ready"
  /\ mQueue # <<>>
  /\ LET o == Head(mQueue)
         call == mCalls[o.call]
     IN /\ mParams' = IF o.op = "writeParams" THEN o.data ELSE mParams
        /\ mCalls' = [mCalls EXCEPT ![o.call] =
             IF o.op = "writeCells" THEN [call EXCEPT !.cellBuf = o.data]
             ELSE IF o.op = "dispatch"
             THEN [call EXCEPT !.resultBuf =
                     Dispatch(mParams, call.cellBuf, mTemplates, call.numCells)]
             ELSE IF o.op = "copy" THEN [call EXCEPT !.stagingBuf = call.resultBuf]
             ELSE call]
  /\ mQueue' = Tail(mQueue)
  /\ UNCHANGED <<mPc, mTemplates, mTemplateWrites>>
  /\ UNCHANGED <<encVars, batchVars, ssimVars, genVars, probeVars, kmeansVars, indexVars, debounceVars, factionVars>>

\* mapAsync resolves once the copy into the staging buffer was executed: the
\* call reads it, destroys its three buffers and returns
MMapResolves ==
  /\ mPc = "ready"
  /\ \E c \in AwaitingCalls :
       /\ \A i \in 1..Len(mQueue) : mQueue[i].call # c
       /\ mCalls' = [mCalls EXCEPT ![c] =
            [mCalls[c] EXCEPT !.pc = "returned", !.result = mCalls[c].stagingBuf,
                              !.live = {}]]
  /\ UNCHANGED <<mPc, mTemplates, mTemplateWrites, mParams, mQueue>>
  /\ UNCHANGED <<encVars, batchVars, ssimVars, genVars, probeVars, kmeansVars, indexVars, debounceVars, factionVars>>

\* The device is lost (driver reset, GPU process gone)
MDeviceLost ==
  /\ mPc = "ready"
  /\ mPc' = "lost"
  /\ UNCHANGED <<mTemplates, mTemplateWrites, mParams, mQueue, mCalls>>
  /\ UNCHANGED <<encVars, batchVars, ssimVars, genVars, probeVars, kmeansVars, indexVars, debounceVars, factionVars>>

\* destroy() of the matcher: templateBuffer.destroy(), paramsBuffer.destroy(),
\* device.destroy()
MDestroy ==
  /\ mPc \in {"ready", "lost"}
  /\ mPc' = "destroyed"
  /\ UNCHANGED <<mTemplates, mTemplateWrites, mParams, mQueue, mCalls>>
  /\ UNCHANGED <<encVars, batchVars, ssimVars, genVars, probeVars, kmeansVars, indexVars, debounceVars, factionVars>>

\* mapAsync rejects on a lost or destroyed device: the await throws and the
\* call ends there
MMapRejects ==
  /\ mPc \in {"lost", "destroyed"}
  /\ \E c \in AwaitingCalls :
       mCalls' = [mCalls EXCEPT ![c] = [@ EXCEPT !.pc = "rejected"]]
  /\ UNCHANGED <<mPc, mTemplates, mTemplateWrites, mParams, mQueue>>
  /\ UNCHANGED <<encVars, batchVars, ssimVars, genVars, probeVars, kmeansVars, indexVars, debounceVars, factionVars>>

MatchNext ==
  \/ MMatch
  \/ MGpuStep
  \/ MMapResolves
  \/ MDeviceLost
  \/ MDestroy
  \/ MMapRejects

SpecMatch == MatchInit /\ [][MatchNext]_vars

\* C21: a call of match() that has settled (returned, rejected or thrown) has
\* destroyed the cell, result and staging buffers it created.
C21_BuffersReleased ==
  \A c \in 1..Len(mCalls) :
    mCalls[c].pc \in {"returned", "rejected", "threw"} => mCalls[c].live = {}

\* C22: a call that returned has one index per cell of its own batch, the
\* index the shader computes from its own cells and cell count, whatever
\* other call was awaiting when it started; the template buffer was written
\* once.
C22_OverlapSafe ==
  /\ mTemplateWrites = 1
  /\ \A c \in 1..Len(mCalls) :
       mCalls[c].pc = "returned" =>
         /\ Len(mCalls[c].result) = mCalls[c].numCells
         /\ mCalls[c].result =
              ShaderResults(mCalls[c].cells, mTemplates,
                            Len(mTemplates) \div MatchCellPixels, mCalls[c].cellPixels)

\* Two calls have returned, the second started while the first was awaiting,
\* with another number of cells, and the first found another template for its
\* first cell than the second
C22_Witness ==
  /\ Len(mCalls) = 2
  /\ mCalls[1].pc = "returned"
  /\ mCalls[2].pc = "returned"
  /\ mCalls[2].during = {1}
  /\ mCalls[1].numCells # mCalls[2].numCells
  /\ mCalls[1].result[1] # mCalls[2].result[1]

----------------------------------------------------------------------------
(* The auto-update effect on a clock: every change of a parameter re-runs   *)
(* the effect, whose cleanup clears the timeout of the render before and    *)
(* whose body sets one of 150 ms that calls the processImage of its render. *)
(* A change and the effect it causes are one step.                          *)

\* setTimeout(..., 150), in units of 50 ms
Debounce == 3

MaxTime == 8

MaxChanges == 3

DebounceInit ==
  /\ EncIdle
  /\ ProbeIdle
  /\ KMeansIdle
  /\ IndexIdle
  /\ BatchIdle
  /\ SsimIdle
  /\ GenIdle
  /\ MatchIdle
  /\ FactionIdle
  /\ dNow = 0
  /\ dParams = 1
  /\ dTimers = {[due |-> Debounce, params |-> 1, change |-> 1]}
  /\ dChanges = <<0>>
  /\ dStarted = <<>>

\* A cleanup that leaves the timeout of the render before in place
NotCleared(timers) == timers

\* return () => clearTimeout(timeoutId)
Cleared(timers) == {}

\* A parameter changes: the render, the cleanup of the effect, its body
DChange ==
  /\ Len(dChanges) < MaxChanges
  /\ dParams' = dParams + 1
  /\ dChanges' = Append(dChanges, dNow)
  /\ dTimers' = Cleared(dTimers) \cup
                  {[due |-> dNow + Debounce, params |-> dParams', change |-> Len(dChanges')]}
  /\ UNCHANGED <<dNow, dStarted>>
  /\ UNCHANGED <<encVars, batchVars, ssimVars, genVars, probeVars, kmeansVars, indexVars, matchVars, factionVars>>

\* 50 ms pass; a timeout that is due may still be waiting for its turn
DTick ==
  /\ dNow < MaxTime
  /\ dNow' = dNow + 1
  /\ UNCHANGED <<dParams, dTimers, dChanges, dStarted>>
  /\ UNCHANGED <<encVars, batchVars, ssimVars, genVars, probeVars, kmeansVars, indexVars, matchVars, factionVars>>

\* A timeout fires, not before it is due: processImage() of its closure
DFire ==
  /\ \E t \in dTimers :
       /\ dNow >= t.due
       /\ dTimers' = dTimers \ {t}
       /\ dStarted' = Append(dStarted, [at |-> dNow, params |-> t.params,
                                         change |-> t.change, current |-> dParams,
                                         changes |-> dChanges])
  /\ UNCHANGED <<dNow, dParams, dChanges>>
  /\ UNCHANGED <<encVars, batchVars, ssimVars, genVars, probeVars, kmeansVars, indexVars, matchVars, factionVars>>

DebounceNext == DChange \/ DTick \/ DFire

SpecDebounce == DebounceInit /\ [][DebounceNext]_vars

\* C29: a generation starts 150 ms or more after the last change before it,
\* with the parameter values of that change, from the timeout that change
\* set; no change has two generations, and of changes less than 150 ms apart
\* only the last has one.
C29_Debounced ==
  \A i \in 1..Len(dStarted) :
    LET s == dStarted[i]
    IN /\ s.change = Len(s.changes)
       /\ s.params = s.current
       /\ \A j \in 1..Len(s.changes) : s.at - s.changes[j] >= Debounce
       /\ \A j \in 1..(Len(dChanges) - 1) :
            dChanges[j + 1] - dChanges[j] < Debounce => s.change # j
       /\ \A k \in 1..Len(dStarted) : dStarted[k].change = s.change => k = i

\* Two changes 100 ms apart after the image was loaded, then a pause, one
\* generation, a further change and its generation
C29_Witness ==
  /\ Len(dChanges) = 3
  /\ dChanges[2] - dChanges[1] < Debounce
  /\ Len(dStarted) = 2
  /\ dStarted[1].change = 2
  /\ dStarted[2].change = 3
  /\ dTimers = {}

---------------------------------------------------------------------------
(* useFactionData: the cache of faction files, the loading flags, the      *)
(* errors, and the effect that preloads every faction whenever loadFaction *)
(* is a new function (SpecFaction).  A state setter queues an updater; a   *)
(* render applies the queued updaters; the effect of a render runs before  *)
(* the next render and sees the states of its own render.                  *)

\* The ids of AVAILABLE_FACTIONS, the first three of the five
AVAILABLE_FACTIONS == <<"all", "federal_states", "atom_barons">>

FactionIdSet == {AVAILABLE_FACTIONS[i] : i \in 1..Len(AVAILABLE_FACTIONS)}

\* What a request for /data/factions/{id}.json meets: the file, no file
\* (response.ok false), a file that is not JSON, no server
FileStates == {"ok", "missing", "malformed", "unreachable"}

\* The calls of loadFaction for one id that have not returned
MaxCalls == 2

FactionInit ==
  /\ EncIdle
  /\ ProbeIdle
  /\ KMeansIdle
  /\ IndexIdle
  /\ BatchIdle
  /\ SsimIdle
  /\ GenIdle
  /\ MatchIdle
  /\ DebounceIdle
  /\ fServer \in [FactionIdSet \ {"all"} -> FileStates]
  /\ fCache = {}
  /\ fLoading = {}
  /\ fErrors = {}
  /\ fQueued = [cache |-> {}, loading |-> {}, errors |-> {}, touched |-> {}]
  /\ fEffect = TRUE
  /\ fFetch = [f \in FactionIdSet |-> <<>>]

\* if (factionId === 'all') return; if (cache[factionId] || loading[factionId]) return;
LoadFactionStarts(factionId, cache, loading) ==
  /\ factionId # "all"
  /\ ~(factionId \in cache \/ factionId \in loading)

\* setErrors(prev => ({...prev, [factionId]: message}))
SetErrors(queued, factionId) ==
  [queued EXCEPT !.errors = @ \cup {factionId}, !.touched = @ \cup {"errors"}]

\* setCache(prev => ({...prev, [factionId]: data}))
SetCache(queued, factionId) ==
  [queued EXCEPT !.cache = @ \cup {factionId}, !.touched = @ \cup {"cache"}]

\* setLoading(prev => ({...prev, [factionId]: value}))
SetLoading(queued, factionId, value) ==
  [queued EXCEPT !.loading = IF value THEN @ \cup {factionId} ELSE @ \ {factionId},
                 !.touched = @ \cup {"loading"}]

RECURSIVE SetLoadingAll(_, _)
SetLoadingAll(queued, ids) ==
  IF ids = {} THEN queued
  ELSE LET f == CHOOSE x \in ids : TRUE
       IN SetLoadingAll(SetLoading(queued, f, TRUE), ids \ {f})

\* The sequence without its i-th element
Without(seq, i) == SubSeq(seq, 1, i - 1) \o SubSeq(seq, i + 1, Len(seq))

\* useEffect(() => AVAILABLE_FACTIONS.forEach(f => loadFaction(f.id)), [loadFaction]):
\* each call up to its first await, with cache and loading of the render
FEffect ==
  /\ fEffect
  /\ LET started == {f \in FactionIdSet :
                       /\ LoadFactionStarts(f, fCache, fLoading)
                       /\ Len(fFetch[f]) < MaxCalls}
     IN /\ fFetch' = [f \in FactionIdSet |->
                        IF f \in started THEN Append(fFetch[f], "fetch") ELSE fFetch[f]]
        /\ fQueued' = SetLoadingAll(fQueued, started)
  /\ fEffect' = FALSE
  /\ UNCHANGED <<fServer, fCache, fLoading, fErrors>>
  /\ UNCHANGED <<encVars, batchVars, ssimVars, genVars, probeVars, kmeansVars, indexVars, matchVars, debounceVars>>

\* A render with the queued updaters applied; loadFaction is a new function
\* when cache or loading is a new object (useCallback(..., [cache, loading]))
FRender ==
  /\ ~fEffect
  /\ fQueued.touched # {}
  /\ fCache' = fQueued.cache
  /\ fLoading' = fQueued.loading
  /\ fErrors' = fQueued.errors
  /\ fEffect' = (fQueued.touched \cap {"cache", "loading"} # {})
  /\ fQueued' = [fQueued EXCEPT !.touched = {}]
  /\ UNCHANGED <<fServer, fFetch>>
  /\ UNCHANGED <<encVars, batchVars, ssimVars, genVars, probeVars, kmeansVars, indexVars, matchVars, debounceVars>>

\* await fetch(...) settles: it rejects, or response.ok is false and the
\* code throws, both into catch; or the call goes on to response.json()
FFetchSettles(f) ==
  /\ \E i \in 1..Len(fFetch[f]) :
       /\ fFetch[f][i] = "fetch"
       /\ IF fServer[f] \in {"unreachable", "missing"}
          THEN /\ fQueued' = SetErrors(fQueued, f)
               /\ fFetch' = [fFetch EXCEPT ![f][i] = "finally"]
          ELSE /\ fQueued' = fQueued
               /\ fFetch' = [fFetch EXCEPT ![f][i] = "json"]
  /\ UNCHANGED <<fServer, fCache, fLoading, fErrors, fEffect>>
  /\ UNCHANGED <<encVars, batchVars, ssimVars, genVars, probeVars, kmeansVars, indexVars, matchVars, debounceVars>>

\* await response.json() settles: setCache, or catch and setErrors
FJsonSettles(f) ==
  /\ \E i \in 1..Len(fFetch[f]) :
       /\ fFetch[f][i] = "json"
       /\ fQueued' = IF fServer[f] = "ok" THEN SetCache(fQueued, f)
                                          ELSE SetErrors(fQueued, f)
       /\ fFetch' = [fFetch EXCEPT ![f][i] = "finally"]
  /\ UNCHANGED <<fServer, fCache, fLoading, fErrors, fEffect>>
  /\ UNCHANGED <<encVars, batchVars, ssimVars, genVars, probeVars, kmeansVars, indexVars, matchVars, debounceVars>>

\* finally { setLoading(prev => ({...prev, [factionId]: false})) }, and the
\* call returns.  It is a step of its own: a setter called outside React's
\* batching renders before it returns.
FFinally(f) ==
  /\ \E i \in 1..Len(fFetch[f]) :
       /\ fFetch[f][i] = "finally"
       /\ fQueued' = SetLoading(fQueued, f, FALSE)
       /\ fFetch' = [fFetch EXCEPT ![f] = Without(@, i)]
  /\ UNCHANGED <<fServer, fCache, fLoading, fErrors, fEffect>>
  /\ UNCHANGED <<encVars, batchVars, ssimVars, genVars, probeVars, kmeansVars, indexVars, matchVars, debounceVars>>

FactionNext ==
  \/ FEffect
  \/ FRender
  \/ \E f \in FactionIdSet \ {"all"} : FFetchSettles(f)
  \/ \E f \in FactionIdSet \ {"all"} : FJsonSettles(f)
  \/ \E f \in FactionIdSet \ {"all"} : FFinally(f)

SpecFaction == FactionInit /\ [][FactionNext]_vars

\* Every request is answered or fails, every continuation and every due
\* render and effect gets its turn
FactionFairness ==
  /\ WF_vars(FEffect)
  /\ WF_vars(FRender)
  /\ \A f \in FactionIdSet \ {"all"} :
       WF_vars(FFetchSettles(f)) /\ WF_vars(FJsonSettles(f)) /\ WF_vars(FFinally(f))

SpecFactionLive == SpecFaction /\ FactionFairness

\* loadFaction(f) goes past its guards in this step
FetchStarted(f) == Len(fFetch'[f]) > Len(fFetch[f])

\* No faction has two calls of loadFaction between their start and return
C30_OneInFlight ==
  \A f \in FactionIdSet \ {"all"} : Len(fFetch[f]) <= 1

\* A faction whose data is in the cache, or on its way there, is not fetched
C30_LoadedOnce ==
  [][\A f \in FactionIdSet : f \in fQueued.cache => ~FetchStarted(f)]_vars

\* Once an error of a faction is recorded, from some time on no call for it
\* is in flight and its loading flag is false
C30_FailureSettles ==
  \A f \in FactionIdSet \ {"all"} :
    (f \in fErrors) ~> [](fFetch[f] = <<>> /\ f \notin fLoading /\ f \in fErrors)

\* C30: a faction other than 'all' has at most one fetch in flight, a
\* faction that was loaded is never fetched again, and after a failed fetch
\* the hook comes to rest with the error recorded and loading false, without
\* fetching that faction again and again.
C30_FactionLoadingSettles ==
  /\ []C30_OneInFlight
  /\ C30_LoadedOnce
  /\ C30_FailureSettles

\* With every file served the hook comes to rest with every faction loaded
C30_AllLoaded ==
  (\A f \in FactionIdSet \ {"all"} : fServer[f] = "ok")
    => <>[](/\ fCache = FactionIdSet \ {"all"}
            /\ fLoading = {}
            /\ ~fEffect
            /\ \A f \in FactionIdSet : fFetch[f] = <<>>)

=============================================================================
